---------------------------- MODULE Spec2Model ----------------------------
(***************************************************************************)
(* A model of parking_finder/main.py: the UTF-8 smart splitter, the record *)
(* identity key, the snapshot diff, the state file and the notification.   *)
(*                                                                         *)
(* A Python str is a sequence of characters; a character is a one-element  *)
(* TLA+ string.  "u2", "u3" and "u4" stand for one code point each, whose  *)
(* UTF-8 encoding takes 2, 3 and 4 bytes.                                  *)
(***************************************************************************)
EXTENDS Integers, Sequences, FiniteSets, TLC

VARIABLES
    text,               \* split_utf8_smart: argument text
    max_bytes,          \* split_utf8_smart: argument max_bytes
    completion_token,   \* split_utf8_smart: argument completion_token
    lines,              \* the lines of text the for loop has not visited yet
    buf,                \* split_utf8_smart: buf, a list of str
    buf_b,              \* split_utf8_smart: buf_b
    chunks,             \* split_utf8_smart: chunks
    spc,                \* position in split_utf8_smart: "call", "loop", "done"
    taken,              \* the branches of the loop this call has run through
    key_args,           \* the two Parking records parking_key_identifier is called on
    key_result,         \* their two identity keys, <<>> before the calls
    previous_parkings,  \* compare_parkings: argument previous_parkings
    current_parkings,   \* compare_parkings: argument current_parkings
    parking_changes,    \* what compare_parkings returned
    dpc,                \* position around compare_parkings: "call", "done"
    state_file,         \* STATE_FILE_PATH: whether it exists, and its content
    last_op,            \* the last operation on the state file, with its outcome
    prev_op,            \* the operation before it
    parking_differences, \* construct_and_send_notification: its argument
    TWILIO_ACCOUNT_SID, \* the module's four settings, read from the
    TWILIO_AUTH_TOKEN,  \*   environment at import; "" when unset
    WHATSAPP_FROM,
    WHATSAPP_TO,
    message,            \* construct_and_send_notification: message, once composed
    split_calls,        \* the calls of split_utf8_smart it made, by their arguments
    notified,           \* the calls of notify_via_twilio it made, by their argument
    whatsapp,           \* the calls of messages.create, with what the API answered
    npc,                \* position around construct_and_send_notification
    boundary_text,      \* last_preferred_boundary_bytes: argument cur_text
    boundary_token,     \* last_preferred_boundary_bytes: argument completion_token
    boundary_cut,       \* what last_preferred_boundary_bytes returned
    bpc,                \* position around last_preferred_boundary_bytes
    site,               \* the pages the site serves, each a list of elements
    mpc,                \* position in main
    stop,               \* the threading.Event stop: whether it is set
    spinner,            \* whether the yaspin spinner runs, its sigmap installed
    curr_page,          \* page_scrape: curr_page, 0 outside page_scrape
    parking_previous,   \* main: parking_previous
    parking_all,        \* main: parking_all
    calls,              \* the calls main made behind its loop, in their order
    exit_status         \* how main ended, "running" before it has

splitVars ==
    <<text, max_bytes, completion_token, lines, buf, buf_b, chunks, spc, taken>>

keyVars == <<key_args, key_result>>

diffVars == <<previous_parkings, current_parkings, parking_changes, dpc>>

storeVars == <<state_file, last_op, prev_op>>

credVars == <<TWILIO_ACCOUNT_SID, TWILIO_AUTH_TOKEN, WHATSAPP_FROM, WHATSAPP_TO>>

notifyVars ==
    <<parking_differences, credVars, message, split_calls, notified, whatsapp, npc>>

boundaryVars == <<boundary_text, boundary_token, boundary_cut, bpc>>

mainVars ==
    <<site, mpc, stop, spinner, curr_page, parking_previous, parking_all, calls,
      exit_status>>

vars ==
    <<splitVars, keyVars, diffVars, storeVars, notifyVars, boundaryVars, mainVars>>

-----------------------------------------------------------------------------
(* Bounds of the model.                                                    *)

MaxTextLen == 6     \* longest text drawn from the boundary characters
MaxWideLen == 4     \* longest text drawn from the characters of all widths
MaxLineLen == 9     \* longest single line without a line break
MaxLines == 4       \* most lines of a text drawn line by line
MaxBytes == 5       \* largest max_bytes
MaxSnapshot == 3    \* most records of a snapshot that is compared
MaxStored == 2      \* most records of a snapshot that is saved
MaxNotified == 3    \* most records of a diff, added and removed together
MaxPages == 2       \* most pages of the site
MaxScraped == 4     \* most records main gathers before the model stops it

-----------------------------------------------------------------------------
(* Python str helpers.                                                     *)

SeqsUpTo(S, n) == UNION {[1..k -> S] : k \in 0..n}

RECURSIVE Concat(_)
\* "".join(parts)
Concat(parts) ==
    IF parts = <<>> THEN <<>> ELSE Head(parts) \o Concat(Tail(parts))

\* UTF-8 width of one code point.
CharBytes(ch) ==
    CASE ch = "u2" -> 2
      [] ch = "u3" -> 3
      [] ch = "u4" -> 4
      [] OTHER -> 1

RECURSIVE utf8len(_)
\* len(s.encode("utf-8"))
utf8len(s) ==
    IF s = <<>> THEN 0 ELSE CharBytes(Head(s)) + utf8len(Tail(s))

\* The line boundaries str.splitlines knows, among the characters modelled.
IsLineBreak(ch) == ch \in {"\n", "\r"}

\* The characters str.strip removes, among the characters modelled.
IsSpace(ch) == ch \in {" ", "\n", "\r", "\t"}

RECURSIVE LineEnd(_, _)
\* Index of the last character of the line that starts at index i of s:
\* the line ends with its terminator ("\r\n" being one terminator), or
\* with the string.
LineEnd(s, i) ==
    IF i > Len(s) THEN Len(s)
    ELSE IF IsLineBreak(s[i])
         THEN IF s[i] = "\r" /\ i < Len(s) /\ s[i + 1] = "\n" THEN i + 1 ELSE i
         ELSE LineEnd(s, i + 1)

RECURSIVE splitlines(_)
\* s.splitlines(keepends=True)
splitlines(s) ==
    IF s = <<>> THEN <<>>
    ELSE LET e == LineEnd(s, 1)
         IN  <<SubSeq(s, 1, e)>> \o splitlines(SubSeq(s, e + 1, Len(s)))

RECURSIVE lstrip(_)
lstrip(s) ==
    IF s # <<>> /\ IsSpace(Head(s)) THEN lstrip(Tail(s)) ELSE s

RECURSIVE rstrip(_)
rstrip(s) ==
    IF s # <<>> /\ IsSpace(s[Len(s)]) THEN rstrip(SubSeq(s, 1, Len(s) - 1)) ELSE s

\* s.strip()
strip(s) == lstrip(rstrip(s))

UpperCase ==
    <<"A", "B", "C", "D", "E", "F", "G", "H", "I", "J", "K", "L", "M",
      "N", "O", "P", "Q", "R", "S", "T", "U", "V", "W", "X", "Y", "Z">>

LowerCase ==
    <<"a", "b", "c", "d", "e", "f", "g", "h", "i", "j", "k", "l", "m",
      "n", "o", "p", "q", "r", "s", "t", "u", "v", "w", "x", "y", "z">>

\* str.casefold and str.lower of one character: they agree on the
\* characters modelled.
CaseFoldChar(ch) ==
    IF \E i \in DOMAIN UpperCase : UpperCase[i] = ch
    THEN LowerCase[CHOOSE i \in DOMAIN UpperCase : UpperCase[i] = ch]
    ELSE ch

casefold(s) == [i \in 1..Len(s) |-> CaseFoldChar(s[i])]

\* s.lower()
lower(s) == [i \in 1..Len(s) |-> CaseFoldChar(s[i])]

\* s.replace(ch, "")
Remove(s, ch) == SelectSeq(s, LAMBDA c : c # ch)

\* needle in hay
Contains(hay, needle) ==
    \E i \in 0..(Len(hay) - Len(needle)) :
        SubSeq(hay, i + 1, i + Len(needle)) = needle

\* b[:n].decode("utf-8") and b[n:].decode("utf-8") of b = s.encode("utf-8"):
\* the characters of s whose bytes lie before, and from, byte offset n.
\* Both are asked only for an n that is a character boundary.
RECURSIVE CharsBefore(_, _)
CharsBefore(s, n) ==
    IF s = <<>> \/ n <= 0 THEN 0
    ELSE 1 + CharsBefore(Tail(s), n - CharBytes(Head(s)))

BytesPrefix(s, n) == SubSeq(s, 1, CharsBefore(s, n))
BytesSuffix(s, n) == SubSeq(s, CharsBefore(s, n) + 1, Len(s))

-----------------------------------------------------------------------------
(* split_line_hard                                                         *)

\* HardCharStep counting every character as one byte (len for utf8len).
HardCharStepCountsChars(st, ch, maxb) ==
    IF st.cur_b + 1 > maxb
    THEN [chunks |-> Append(st.chunks, st.cur), cur |-> <<ch>>, cur_b |-> 1]
    ELSE [chunks |-> st.chunks, cur |-> Append(st.cur, ch),
          cur_b |-> st.cur_b + 1]

\* One iteration of "for ch in line": st is [chunks, cur, cur_b].
HardCharStep(st, ch, maxb) ==
    LET cb == CharBytes(ch)
    IN  IF st.cur_b + cb > maxb
        THEN [chunks |-> Append(st.chunks, st.cur), cur |-> <<ch>>, cur_b |-> cb]
        ELSE [chunks |-> st.chunks, cur |-> Append(st.cur, ch),
              cur_b |-> st.cur_b + cb]

RECURSIVE HardLoop(_, _, _)
HardLoop(st, line, maxb) ==
    IF line = <<>> THEN st
    ELSE HardLoop(HardCharStep(st, Head(line), maxb), Tail(line), maxb)

\* split_line_hard without its closing "if cur: chunks.append(cur)".
split_line_hard_no_tail(line, maxb) ==
    HardLoop([chunks |-> <<>>, cur |-> <<>>, cur_b |-> 0], line, maxb).chunks

split_line_hard(line, maxb) ==
    LET st == HardLoop([chunks |-> <<>>, cur |-> <<>>, cur_b |-> 0], line, maxb)
    IN  IF st.cur # <<>> THEN Append(st.chunks, st.cur) ELSE st.chunks

-----------------------------------------------------------------------------
(* _is_completion_line, last_preferred_boundary_bytes                      *)

_is_completion_line(line, token) ==
    Contains(casefold(Remove(Remove(line, "*"), "_")), casefold(token))

\* The value None of "None | int": byte offsets are never negative.
None == -1

Separator == <<"-", "-">>

\* BoundaryLineStep without Rule 1, the blank line after a completion line.
BoundaryLineStepNoRule1(st, ln, token) ==
    LET stripped == strip(ln)
        after == st.off + utf8len(ln)
    IN  [off |-> after,
         prev_non_empty |-> IF stripped # <<>> THEN ln ELSE st.prev_non_empty,
         candidates |-> IF stripped = Separator
                        THEN Append(st.candidates, after) ELSE st.candidates]

\* BoundaryLineStep taking every blank line for a cut point, whatever
\* stands before it.
BoundaryLineStepAnyBlank(st, ln, token) ==
    LET stripped == strip(ln)
        after == st.off + utf8len(ln)
    IN  [off |-> after,
         prev_non_empty |-> IF stripped # <<>> THEN ln ELSE st.prev_non_empty,
         candidates |-> IF stripped = Separator \/ stripped = <<>>
                        THEN Append(st.candidates, after) ELSE st.candidates]

\* One iteration of "for i, ln in enumerate(lines)": st is
\* [off, prev_non_empty, candidates], off being offsets[i].
BoundaryLineStep(st, ln, token) ==
    LET stripped == strip(ln)
        after == st.off + utf8len(ln)
        c1 == IF stripped = Separator
              THEN Append(st.candidates, after) ELSE st.candidates
    IN  IF stripped # <<>>
        THEN [off |-> after, prev_non_empty |-> ln, candidates |-> c1]
        ELSE [off |-> after, prev_non_empty |-> st.prev_non_empty,
              candidates |->
                  IF st.prev_non_empty # <<>>
                     /\ _is_completion_line(st.prev_non_empty, token)
                  THEN Append(c1, after) ELSE c1]

RECURSIVE BoundaryLoop(_, _, _)
BoundaryLoop(st, lns, token) ==
    IF lns = <<>> THEN st
    ELSE BoundaryLoop(BoundaryLineStep(st, Head(lns), token), Tail(lns), token)

BoundaryCandidates(cur_text, token) ==
    BoundaryLoop([off |-> 0, prev_non_empty |-> <<>>, candidates |-> <<>>],
                 splitlines(cur_text), token).candidates

\* last_preferred_boundary_bytes returning the first candidate.
last_preferred_boundary_bytes_first(cur_text, token) ==
    LET candidates == BoundaryCandidates(cur_text, token)
    IN  IF candidates # <<>> THEN candidates[1] ELSE None

last_preferred_boundary_bytes(cur_text, token) ==
    LET candidates == BoundaryCandidates(cur_text, token)
    IN  IF candidates # <<>> THEN candidates[Len(candidates)] ELSE None

-----------------------------------------------------------------------------
(* split_utf8_smart: the body of its for loop, on st = [chunks, buf, buf_b] *)

\* flush_chunk without its test "if buf".
flush_chunk_unguarded(st) ==
    [chunks |-> Append(st.chunks, Concat(st.buf)), buf |-> <<>>,
     buf_b |-> st.buf_b]

\* flush_chunk(buf, chunks)
flush_chunk(st) ==
    IF st.buf # <<>>
    THEN [chunks |-> Append(st.chunks, Concat(st.buf)), buf |-> <<>>,
          buf_b |-> st.buf_b]
    ELSE st

\* lb > max_bytes: finish the buffer, hard-split the line.
LongLineStep(st, line, maxb) ==
    LET f == flush_chunk(st)
    IN  [chunks |-> f.chunks \o split_line_hard(line, maxb), buf |-> f.buf,
         buf_b |-> 0]

\* PreferredCut forgetting the remainder: the buffer is emptied by the cut.
PreferredCutDropsRemainder(st, token) ==
    LET cur_text == Concat(st.buf)
        cut == last_preferred_boundary_bytes(cur_text, token)
    IN  IF cut # None
        THEN [chunks |-> Append(st.chunks, BytesPrefix(cur_text, cut)),
              buf |-> <<>>, buf_b |-> 0]
        ELSE st

\* The preferred cut of the overflow branch.
PreferredCut(st, token) ==
    LET cur_text == Concat(st.buf)
        cut == last_preferred_boundary_bytes(cur_text, token)
        remainder == BytesSuffix(cur_text, cut)
    IN  IF cut # None
        THEN [chunks |-> Append(st.chunks, BytesPrefix(cur_text, cut)),
              buf |-> IF remainder # <<>> THEN <<remainder>> ELSE <<>>,
              buf_b |-> IF remainder # <<>> THEN utf8len(remainder) ELSE 0]
        ELSE st

\* "Still too big? start a new chunk."
ForcedFlush(st, lb, maxb) ==
    IF st.buf_b + lb > maxb
    THEN [flush_chunk(st) EXCEPT !.buf_b = 0]
    ELSE st

\* AddLine cutting at once behind every separator line, full or not.
AddLineCutsAtSeparator(st, line) ==
    IF strip(line) = Separator
    THEN [chunks |-> Append(st.chunks, Concat(Append(st.buf, line))),
          buf |-> <<>>, buf_b |-> 0]
    ELSE [chunks |-> st.chunks, buf |-> Append(st.buf, line),
          buf_b |-> st.buf_b + utf8len(line)]

\* buf.append(line); buf_b += lb
AddLine(st, line) ==
    [chunks |-> st.chunks, buf |-> Append(st.buf, line),
     buf_b |-> st.buf_b + utf8len(line)]

\* An overflow branch that cuts where the chunk is full, not at a line end:
\* the first character of the line still goes to the chunk that is closed.
OverflowStepCutsInLine(st, line, maxb, token) ==
    [chunks |-> Append(st.chunks, Concat(st.buf) \o <<Head(line)>>),
     buf |-> IF Tail(line) # <<>> THEN <<Tail(line)>> ELSE <<>>,
     buf_b |-> utf8len(Tail(line))]

\* buf_b + lb > max_bytes
OverflowStep(st, line, maxb, token) ==
    AddLine(ForcedFlush(PreferredCut(st, token), utf8len(line), maxb), line)

LineStep(st, line, maxb, token) ==
    IF utf8len(line) > maxb THEN LongLineStep(st, line, maxb)
    ELSE IF st.buf_b + utf8len(line) > maxb THEN OverflowStep(st, line, maxb, token)
    ELSE AddLine(st, line)

RECURSIVE SplitLoop(_, _, _, _)
\* The state of the loop after it has visited the lines lns in their
\* order, from st.  The lines are halved, and the state after the first
\* half is computed before the second half is entered, which keeps the
\* evaluation shallow on a long text.
SplitLoop(st, lns, maxb, token) ==
    IF lns = <<>> THEN st
    ELSE IF Len(lns) = 1 THEN LineStep(st, lns[1], maxb, token)
    ELSE LET half == Len(lns) \div 2
             mid == SplitLoop(st, SubSeq(lns, 1, half), maxb, token)
         IN  IF mid.buf_b >= 0
             THEN SplitLoop(mid, SubSeq(lns, half + 1, Len(lns)), maxb, token)
             ELSE mid

\* The function as a whole, for its callers.
split_utf8_smart(txt, maxb, token) ==
    flush_chunk(SplitLoop([chunks |-> <<>>, buf |-> <<>>, buf_b |-> 0],
                          splitlines(txt), maxb, token)).chunks

-----------------------------------------------------------------------------
(* Parking, parking_key_identifier                                         *)

\* The fields of the pydantic model Parking, each a str.
ParkingFields == {"access", "address", "area", "interest", "rent", "kind"}

\* The labels parking_key_identifier joins, in its order.
KeyLabels == <<"area", "address", "kind", "rent", "access", "interest">>

RECURSIVE Join(_, _)
\* sep.join(parts)
Join(sep, parts) ==
    IF parts = <<>> THEN <<>>
    ELSE IF Len(parts) = 1 THEN Head(parts)
    ELSE Head(parts) \o sep \o Join(sep, Tail(parts))

\* The key of the docstring: "the address, area, type, and rent".
parking_key_identifier_four_labels(parking) ==
    Join(<<"|">>, [i \in 1..4 |-> parking[KeyLabels[i]]])

parking_key_identifier(parking) ==
    Join(<<"|">>, [i \in 1..Len(KeyLabels) |-> parking[KeyLabels[i]]])

\* The field values the identity key is tried on: empty, plain, and the
\* delimiter itself.
KeyFieldValues == {<<>>, <<"a">>, <<"|">>}

KeyRecords == [ParkingFields -> KeyFieldValues]

KeyInputs ==
    /\ key_args \in KeyRecords \X KeyRecords
    /\ key_result = <<>>

KeyIdle == key_args = <<>> /\ key_result = <<>>

\* The two calls of parking_key_identifier.
KeyIdentify ==
    /\ key_args # <<>> /\ key_result = <<>>
    /\ key_result' = <<parking_key_identifier(key_args[1]),
                       parking_key_identifier(key_args[2])>>
    /\ UNCHANGED <<key_args, splitVars, diffVars, storeVars, notifyVars,
                   boundaryVars, mainVars>>

-----------------------------------------------------------------------------
(* compare_parkings                                                        *)

Keys(parkings) ==
    {parking_key_identifier(parkings[i]) : i \in 1..Len(parkings)}

RECURSIVE DistinctByKey(_)
\* The records of a list, the first of each identity key alone.
DistinctByKey(parkings) ==
    IF parkings = <<>> THEN <<>>
    ELSE LET front == DistinctByKey(SubSeq(parkings, 1, Len(parkings) - 1))
             last == parkings[Len(parkings)]
         IN  IF parking_key_identifier(last) \in Keys(front) THEN front
             ELSE Append(front, last)

\* compare_parkings returning one record for each identity key.
compare_parkings_deduplicated(previous, current) ==
    [added |-> DistinctByKey(SelectSeq(current,
                   LAMBDA p : parking_key_identifier(p) \notin Keys(previous))),
     removed |-> DistinctByKey(SelectSeq(previous,
                   LAMBDA p : parking_key_identifier(p) \notin Keys(current)))]

\* compare_parkings with the test of its first comprehension inverted.
compare_parkings_inverted(previous, current) ==
    [added |-> SelectSeq(current,
                   LAMBDA p : parking_key_identifier(p) \in Keys(previous)),
     removed |-> SelectSeq(previous,
                   LAMBDA p : parking_key_identifier(p) \notin Keys(current))]

\* compare_parkings testing the removed records against the wrong key set.
compare_parkings_wrong_keys(previous, current) ==
    [added |-> SelectSeq(current,
                   LAMBDA p : parking_key_identifier(p) \notin Keys(previous)),
     removed |-> SelectSeq(previous,
                   LAMBDA p : parking_key_identifier(p) \notin Keys(previous))]

compare_parkings(previous, current) ==
    LET previous_parking_keys == Keys(previous)
        current_parking_keys == Keys(current)
    IN  [added |-> SelectSeq(current,
                       LAMBDA p : parking_key_identifier(p) \notin previous_parking_keys),
         removed |-> SelectSeq(previous,
                       LAMBDA p : parking_key_identifier(p) \notin current_parking_keys)]

Parking(area, address, kind, rent, access, interest) ==
    [area |-> area, address |-> address, kind |-> kind, rent |-> rent,
     access |-> access, interest |-> interest]

\* The records the snapshots are drawn from: two records that differ in
\* the interest count alone, and two different records, of other areas,
\* whose fields join to the same identity key.
SnapshotRecords ==
    { Parking(<<"R">>, <<"g", "1">>, <<"k">>, <<"5">>, <<"d">>, <<"2">>),
      Parking(<<"R">>, <<"g", "1">>, <<"k">>, <<"5">>, <<"d">>, <<"3">>),
      Parking(<<"v", "|">>, <<"g">>, <<"k">>, <<"5">>, <<"d">>, <<"2">>),
      Parking(<<"v">>, <<"|", "g">>, <<"k">>, <<"5">>, <<"d">>, <<"2">>) }

Snapshots == SeqsUpTo(SnapshotRecords, MaxSnapshot)

NoChanges == [added |-> <<>>, removed |-> <<>>]

DiffInputs ==
    /\ previous_parkings \in Snapshots
    /\ current_parkings \in Snapshots
    /\ parking_changes = NoChanges
    /\ dpc = "call"

DiffIdle ==
    /\ previous_parkings = <<>> /\ current_parkings = <<>>
    /\ parking_changes = NoChanges /\ dpc = "idle"

Compare ==
    /\ dpc = "call"
    /\ parking_changes' = compare_parkings(previous_parkings, current_parkings)
    /\ dpc' = "done"
    /\ UNCHANGED <<previous_parkings, current_parkings, splitVars, keyVars,
                   storeVars, notifyVars, boundaryVars,
                   mainVars>>

-----------------------------------------------------------------------------
(* The state file: json.dumps, TypeAdapter(list[Parking]).validate_json    *)
(*                                                                         *)
(* The file holds a sequence of JSON tokens, each [t, s]: the punctuation  *)
(* "[", "]", "{", "}", ":", ",", a number "num", a string "str" with its   *)
(* body s as written between the quotes (escapes included), "junk" for     *)
(* text that is no JSON token, and "badbyte" for a byte sequence that is   *)
(* not UTF-8.  The white space of indent=2 stands between tokens and is    *)
(* skipped by every JSON reader; it is left out.  A field name is written  *)
(* as a string of one symbol.                                              *)

DQ == "\""
BS == "\\"

Tok(t) == [t |-> t, s |-> <<>>]
StrTok(body) == [t |-> "str", s |-> body]

\* What json.dumps(..., ensure_ascii=False) writes for one character of a
\* string: the quote, the backslash and control characters are escaped,
\* everything else, non-ASCII included, is written as it is.
EscapeChar(ch) ==
    CASE ch = DQ -> <<BS, DQ>>
      [] ch = BS -> <<BS, BS>>
      [] ch = "\n" -> <<BS, "n">>
      [] OTHER -> <<ch>>

Escape(str) == Concat([i \in 1..Len(str) |-> EscapeChar(str[i])])

RECURSIVE Unescape(_)
\* The string a JSON reader takes from a string body: [ok, v].  A raw
\* quote or control character and an unknown escape are errors.
Unescape(body) ==
    IF body = <<>> THEN [ok |-> TRUE, v |-> <<>>]
    ELSE IF Head(body) = BS
    THEN IF Len(body) >= 2 /\ body[2] \in {DQ, BS, "n"}
         THEN LET r == Unescape(SubSeq(body, 3, Len(body)))
                  ch == IF body[2] = "n" THEN "\n" ELSE body[2]
              IN  [ok |-> r.ok, v |-> <<ch>> \o r.v]
         ELSE [ok |-> FALSE, v |-> <<>>]
    ELSE IF Head(body) \in {DQ, "\n", "\r"}
    THEN [ok |-> FALSE, v |-> <<>>]
    ELSE LET r == Unescape(Tail(body))
         IN  [ok |-> r.ok, v |-> <<Head(body)>> \o r.v]

\* Parking.model_dump(): the fields in the order the class declares them.
DumpOrder == <<"access", "address", "area", "interest", "rent", "kind">>

RECURSIVE JoinTokens(_)
\* The token sequences of parts, with a comma between each two.
JoinTokens(parts) ==
    IF parts = <<>> THEN <<>>
    ELSE IF Len(parts) = 1 THEN Head(parts)
    ELSE Head(parts) \o <<Tok(",")>> \o JoinTokens(Tail(parts))

\* A JSON object whose members are <<name, string value>> pairs.
ObjectTokens(members) ==
    <<Tok("{")>>
    \o JoinTokens([i \in 1..Len(members) |->
          <<StrTok(Escape(<<members[i][1]>>)), Tok(":"),
            StrTok(Escape(members[i][2]))>>])
    \o <<Tok("}")>>

ArrayTokens(elements) == <<Tok("[")>> \o JoinTokens(elements) \o <<Tok("]")>>

model_dump(parking) == [i \in 1..Len(DumpOrder) |-> <<DumpOrder[i], parking[DumpOrder[i]]>>]

\* json.dumps([p.model_dump() for p in parking_spaces], indent=2,
\*            ensure_ascii=False)
json_dumps(parking_spaces) ==
    ArrayTokens([i \in 1..Len(parking_spaces) |->
                    ObjectTokens(model_dump(parking_spaces[i]))])

ParseFail == [ok |-> FALSE, val |-> [k |-> "err", v |-> <<>>], rest |-> <<>>]

ParseOk(kind, v, rest) == [ok |-> TRUE, val |-> [k |-> kind, v |-> v], rest |-> rest]

RECURSIVE ParseValue(_), ParseElements(_, _), ParseMembers(_, _)

\* One JSON value from the front of toks: [ok, val, rest].
ParseValue(toks) ==
    IF toks = <<>> THEN ParseFail
    ELSE LET h == Head(toks)
         IN  CASE h.t = "str" ->
                    LET u == Unescape(h.s)
                    IN  IF u.ok THEN ParseOk("str", u.v, Tail(toks)) ELSE ParseFail
               [] h.t = "num" -> ParseOk("num", <<>>, Tail(toks))
               [] h.t = "[" ->
                    IF Len(toks) >= 2 /\ toks[2].t = "]"
                    THEN ParseOk("arr", <<>>, SubSeq(toks, 3, Len(toks)))
                    ELSE ParseElements(Tail(toks), <<>>)
               [] h.t = "{" ->
                    IF Len(toks) >= 2 /\ toks[2].t = "}"
                    THEN ParseOk("obj", <<>>, SubSeq(toks, 3, Len(toks)))
                    ELSE ParseMembers(Tail(toks), <<>>)
               [] OTHER -> ParseFail

\* The elements of an array after its "[" or after a ",".
ParseElements(toks, acc) ==
    LET e == ParseValue(toks)
    IN  IF ~e.ok \/ e.rest = <<>> THEN ParseFail
        ELSE IF Head(e.rest).t = ","
        THEN ParseElements(Tail(e.rest), Append(acc, e.val))
        ELSE IF Head(e.rest).t = "]"
        THEN ParseOk("arr", Append(acc, e.val), Tail(e.rest))
        ELSE ParseFail

\* The members of an object after its "{" or after a ",".
ParseMembers(toks, acc) ==
    IF Len(toks) < 2 \/ toks[1].t # "str" \/ toks[2].t # ":" THEN ParseFail
    ELSE LET name == Unescape(toks[1].s)
             e == ParseValue(SubSeq(toks, 3, Len(toks)))
         IN  IF ~name.ok \/ ~e.ok \/ e.rest = <<>> THEN ParseFail
             ELSE IF Head(e.rest).t = ","
             THEN ParseMembers(Tail(e.rest), Append(acc, <<name.v, e.val>>))
             ELSE IF Head(e.rest).t = "}"
             THEN ParseOk("obj", Append(acc, <<name.v, e.val>>), Tail(e.rest))
             ELSE ParseFail

\* A whole JSON document.
ParseJson(toks) ==
    LET r == ParseValue(toks)
    IN  IF r.ok /\ r.rest = <<>> THEN r ELSE ParseFail

\* The names of an object's members.
MemberNames(members) == {members[i][1] : i \in 1..Len(members)}

\* The value of the last member called name, as in a dict.
MemberValue(members, name) ==
    LET at == {i \in 1..Len(members) : members[i][1] = name}
        last == CHOOSE i \in at : \A j \in at : j <= i
    IN  members[last][2]

\* Parking, validated from a JSON value: an object with the six fields
\* and no other (extra="forbid"), each a JSON string (StrictStr).
IsParkingObject(val) ==
    /\ val.k = "obj"
    /\ MemberNames(val.v) = {<<f>> : f \in ParkingFields}
    /\ \A f \in ParkingFields : MemberValue(val.v, <<f>>).k = "str"

ParkingOfObject(val) == [f \in ParkingFields |-> MemberValue(val.v, <<f>>).v]

\* parkinglist.validate_json(text): [ok, value]; not ok is ValidationError.
validate_json(toks) ==
    LET r == ParseJson(toks)
    IN  IF r.ok /\ r.val.k = "arr"
              /\ \A i \in 1..Len(r.val.v) : IsParkingObject(r.val.v[i])
        THEN [ok |-> TRUE,
              value |-> [i \in 1..Len(r.val.v) |-> ParkingOfObject(r.val.v[i])]]
        ELSE [ok |-> FALSE, value |-> <<>>]

-----------------------------------------------------------------------------
(* parking_state_load, parking_state_save                                  *)

NoFile == [exists |-> FALSE, content |-> <<>>]
FileWith(content) == [exists |-> TRUE, content |-> content]

\* read_text(encoding="utf-8") raises UnicodeDecodeError on such content.
IsUtf8(content) == \A i \in 1..Len(content) : content[i].t # "badbyte"

\* The faults the file system can answer a load of this file with: "read"
\* is an OSError other than FileNotFoundError from read_text, "unlink" an
\* OSError from unlink.
LoadFaults(file) ==
    {"none"}
    \cup (IF file.exists THEN {"read"} ELSE {})
    \cup (IF file.exists /\ IsUtf8(file.content) /\ ~validate_json(file.content).ok
          THEN {"unlink"} ELSE {})

\* parking_state_load removing the file in its handler of OSError as it
\* does in its handler of corrupted content.
parking_state_load_unlinks_on_oserror(file, fault) ==
    IF ~file.exists
    THEN [file |-> file, outcome |-> "returned", value |-> <<>>]
    ELSE IF fault = "read"
    THEN [file |-> NoFile, outcome |-> "returned", value |-> <<>>]
    ELSE IF ~IsUtf8(file.content)
    THEN [file |-> file, outcome |-> "UnicodeDecodeError", value |-> <<>>]
    ELSE LET v == validate_json(file.content)
         IN  IF v.ok
             THEN [file |-> file, outcome |-> "returned", value |-> v.value]
             ELSE [file |-> IF fault = "unlink" THEN file ELSE NoFile,
                   outcome |-> "returned", value |-> <<>>]

\* parking_state_load(): the file afterwards, how the call ended, and the
\* list it returned.
parking_state_load(file, fault) ==
    IF ~file.exists
    THEN \* except FileNotFoundError
         [file |-> file, outcome |-> "returned", value |-> <<>>]
    ELSE IF fault = "read"
    THEN \* except OSError
         [file |-> file, outcome |-> "returned", value |-> <<>>]
    ELSE IF ~IsUtf8(file.content)
    THEN \* UnicodeDecodeError is a ValueError: no except clause takes it
         [file |-> file, outcome |-> "UnicodeDecodeError", value |-> <<>>]
    ELSE LET v == validate_json(file.content)
         IN  IF v.ok
             THEN [file |-> file, outcome |-> "returned", value |-> v.value]
             ELSE \* except (json.JSONDecodeError, ValidationError)
                  [file |-> IF fault = "unlink" THEN file ELSE NoFile,
                   outcome |-> "returned", value |-> <<>>]

\* The content of the comment in parking_state_save, "the sorted set":
\* every record once.
SaveContentOfSet(parking_spaces) ==
    LET firsts == SelectSeq([i \in 1..Len(parking_spaces) |-> i],
                            LAMBDA i : \A j \in 1..(i - 1) :
                                          parking_spaces[j] # parking_spaces[i])
    IN  json_dumps([n \in 1..Len(firsts) |-> parking_spaces[firsts[n]]])

\* The text parking_state_save writes.
SaveContent(parking_spaces) == json_dumps(parking_spaces)

\* The files a save can leave: with the fault "open" write_text fails
\* before the file is touched, with "write" after it was truncated, part
\* of the text written.
parking_state_save(file, parking_spaces, fault) ==
    LET data == SaveContent(parking_spaces)
    IN  CASE fault = "none" -> {FileWith(data)}
          [] fault = "open" -> {file}
          [] fault = "write" ->
                {FileWith(SubSeq(data, 1, n)) : n \in {0, Len(data) \div 2}}

\* The records the saved snapshots are drawn from: one plain, one with
\* the characters json.dumps escapes, a wide character and an empty field.
StoreRecords ==
    { Parking(<<"R">>, <<"g", "1">>, <<"k">>, <<"5">>, <<"d">>, <<"2">>),
      Parking(<<"R", DQ>>, <<BS, "n">>, <<"u2">>, <<"\n">>, <<BS>>, <<>>) }

StoreSnapshots == SeqsUpTo(StoreRecords, MaxStored)

PlainMembers ==
    model_dump(Parking(<<"R">>, <<"g", "1">>, <<"k">>, <<"5">>, <<"d">>, <<"2">>))

Reverse(seq) == [i \in 1..Len(seq) |-> seq[Len(seq) + 1 - i]]

\* A snapshot as another writer would lay it out: the fields in another
\* order.
ForeignValidContents ==
    { ArrayTokens(<<ObjectTokens(Reverse(PlainMembers))>>) }

\* Content that is no JSON array of Parking records.
CorruptContents ==
    { <<>>,
      <<Tok("junk")>>,
      <<Tok("[")>>,
      <<Tok("{"), Tok("}")>>,
      <<Tok("num")>>,
      ArrayTokens(<<<<Tok("num")>>>>),
      ArrayTokens(<<ObjectTokens(PlainMembers), <<>>>>),
      ArrayTokens(<<ObjectTokens(SubSeq(PlainMembers, 1, 5))>>),
      ArrayTokens(<<ObjectTokens(PlainMembers \o <<<<"id", <<"7">>>>>>)>>),
      ArrayTokens(<<ObjectTokens(SubSeq(PlainMembers, 1, 5))
                    \o <<Tok(","), StrTok(<<"kind">>), Tok(":"), Tok("num")>>>>),
      ArrayTokens(<<<<Tok("{"), StrTok(<<"kind">>), Tok(":"),
                      StrTok(<<"a", "\n">>), Tok("}")>>>>),
      <<Tok("badbyte")>>,
      ArrayTokens(<<ObjectTokens(PlainMembers)>>) \o <<Tok("badbyte")>> }

NoOp == [op |-> "none", arg |-> <<>>, fault |-> "none", outcome |-> "none",
         value |-> <<>>]

StoreInputs ==
    /\ state_file = NoFile
    /\ last_op = NoOp
    /\ prev_op = NoOp

StoreIdle == StoreInputs

Record(op) ==
    /\ last_op' = op
    /\ prev_op' = last_op
    /\ UNCHANGED <<splitVars, keyVars, diffVars, notifyVars, boundaryVars,
                   mainVars>>

\* Something else than this program writes the state file.
EnvWrite ==
    \E content \in CorruptContents \cup ForeignValidContents :
        /\ state_file' = FileWith(content)
        /\ Record([NoOp EXCEPT !.op = "env_write", !.arg = content])

\* Something else than this program removes the state file.
EnvRemove ==
    /\ state_file.exists
    /\ state_file' = NoFile
    /\ Record([NoOp EXCEPT !.op = "env_remove"])

Load ==
    \E fault \in LoadFaults(state_file) :
        LET r == parking_state_load(state_file, fault)
        IN  /\ state_file' = r.file
            /\ Record([op |-> "load", arg |-> <<>>, fault |-> fault,
                       outcome |-> r.outcome, value |-> r.value])

Save ==
    \E parking_spaces \in StoreSnapshots, fault \in {"none", "open", "write"} :
        /\ state_file' \in parking_state_save(state_file, parking_spaces, fault)
        /\ Record([op |-> "save", arg |-> parking_spaces, fault |-> fault,
                   outcome |-> "returned", value |-> <<>>])

-----------------------------------------------------------------------------
(* construct_and_send_notification, format_parking_grp_msg, notify_*       *)
(*                                                                         *)
(* In the literals of the program the letter a-umlaut is written "u2" and  *)
(* an emoji code point "u4" or "u3", by its UTF-8 width.                   *)

\* The characters that are compared when strings are sorted, in the order
\* of their code points.
CodePointOrder ==
    <<"\n", " ", "*", "-", "0", "1", "2", "3", "4", "5", "6", "7", "8", "9",
      ":">> \o UpperCase \o <<"_">> \o LowerCase \o <<"|", "u2", "u3", "u4">>

\* ord(ch), up to a renumbering that keeps the order.
ord(ch) == CHOOSE i \in DOMAIN CodePointOrder : CodePointOrder[i] = ch

RECURSIVE StrLess(_, _)
\* a < b on two str
StrLess(a, b) ==
    IF b = <<>> THEN FALSE
    ELSE IF a = <<>> THEN TRUE
    ELSE IF Head(a) = Head(b) THEN StrLess(Tail(a), Tail(b))
    ELSE ord(Head(a)) < ord(Head(b))

RECURSIVE TupleLess(_, _)
\* x < y on two tuples of str
TupleLess(x, y) ==
    IF y = <<>> THEN FALSE
    ELSE IF x = <<>> THEN TRUE
    ELSE IF Head(x) = Head(y) THEN TupleLess(Tail(x), Tail(y))
    ELSE StrLess(Head(x), Head(y))

RECURSIVE SortedStrsFolded(_)
\* sorted(S, key=str.casefold) on a set of str
SortedStrsFolded(S) ==
    IF S = {} THEN <<>>
    ELSE LET least == CHOOSE a \in S :
                          \A b \in S \ {a} : ~StrLess(casefold(b), casefold(a))
         IN  <<least>> \o SortedStrsFolded(S \ {least})

RECURSIVE SortedStrs(_)
\* sorted(S) on a set of str
SortedStrs(S) ==
    IF S = {} THEN <<>>
    ELSE LET least == CHOOSE a \in S : \A b \in S \ {a} : StrLess(a, b)
         IN  <<least>> \o SortedStrs(S \ {least})

\* The sort key of format_parking_grp_msg.
SortKey(p) ==
    <<lower(p.address), lower(p.kind), lower(p.rent), lower(p.access),
      lower(p.interest)>>

RECURSIVE InsertByKey(_, _)
InsertByKey(sorted, p) ==
    IF sorted = <<>> THEN <<p>>
    ELSE IF TupleLess(SortKey(p), SortKey(Head(sorted))) THEN <<p>> \o sorted
    ELSE <<Head(sorted)>> \o InsertByKey(Tail(sorted), p)

RECURSIVE SortedByKey(_)
\* sorted(parkings, key=...): a stable sort.
SortedByKey(parkings) ==
    IF parkings = <<>> THEN <<>>
    ELSE InsertByKey(SortedByKey(SubSeq(parkings, 1, Len(parkings) - 1)),
                     parkings[Len(parkings)])

Carport ==
    <<"c", "a", "r", "p", "o", "r", "t">>

Parkeringsplats ==
    <<"p", "a", "r", "k", "e", "r", "i", "n", "g", "s", "p", "l",
      "a", "t", "s">>

\* EMOJI_MAP.get(kind.lower(), ""), with the entries of EMOJI_MAP for the
\* kinds above.
_get_kind_emoji(kind) ==
    CASE lower(kind) = Carport -> <<"u4", " ", "u4">>
      [] lower(kind) = Parkeringsplats -> <<"u4", " ", "u4", "u3">>
      [] OTHER -> <<>>

AddressLabel ==
    <<" ", " ", "*", "A", "d", "d", "r", "e", "s", "s", ":", "*",
      " ", "_">>

KindLabel ==
    <<" ", " ", "*", "T", "y", "p", ":", "*", " ", "_">>

RentLabel ==
    <<" ", " ", "*", "H", "y", "r", "a", ":", "*", " ", "_">>

AccessLabel ==
    <<" ", " ", "*", "T", "i", "l", "l", "t", "r", "u2", "d", "e",
      ":", "*", " ", "_">>

InterestLabel ==
    <<" ", " ", "*", "A", "n", "t", "a", "l", " ", "i", "n", "t",
      "r", "e", "s", "s", "e", "r", "a", "d", "e", ":", "*", " ",
      "_">>

_format_single_parking_item(parking, is_last_in_area) ==
    << AddressLabel \o parking.address \o <<"_", " ">>,
       KindLabel \o parking.kind \o <<"_", " ">> \o _get_kind_emoji(parking.kind),
       RentLabel \o parking.rent \o <<"_", " ">>,
       AccessLabel \o parking.access \o <<"_", " ">>,
       InterestLabel \o parking.interest \o <<"_", " ">> >>
    \o (IF is_last_in_area THEN <<>> ELSE << <<" ", " ", "-", "-", " ">> >>)

\* The parkings grouped by area: a dict from area name to list.
GroupByArea(parkings) ==
    [area_name \in {parkings[i].area : i \in DOMAIN parkings} |->
        SelectSeq(parkings, LAMBDA p : p.area = area_name)]

\* What format_parking_grp_msg appends for one area.
AreaParts(area_name, parkings) ==
    LET sorted_parkings_in_area == SortedByKey(parkings)
        n == Len(sorted_parkings_in_area)
    IN  << <<"\n", "*">> \o area_name \o <<"*", "\n">> >>
        \o Concat([i \in 1..n |->
                     _format_single_parking_item(sorted_parkings_in_area[i], i = n)])
        \o << <<>> >>

format_parking_grp_msg(title, parking_group) ==
    IF DOMAIN parking_group = {} THEN <<>>
    ELSE LET areas == SortedStrs(DOMAIN parking_group)
         IN  <<title>>
             \o Concat([i \in DOMAIN areas |->
                          AreaParts(areas[i], parking_group[areas[i]])])

AddedTitle ==
    <<"N", "y", "a", " ", "p", "a", "r", "k", "e", "r", "i", "n",
      "g", "s", "p", "l", "a", "t", "s", "e", "r", " ", "h", "i",
      "t", "t", "a", "d", "e", ":">>

RemovedTitle ==
    <<"P", "a", "r", "k", "e", "r", "i", "n", "g", "s", "p", "l",
      "a", "t", "s", "e", "r", " ", "e", "j", " ", "l", "u2", "n",
      "g", "r", "e", " ", "t", "i", "l", "l", "g", "u2", "n", "g",
      "l", "i", "g", "a", ":">>

CompletionToken ==
    <<"A", "n", "t", "a", "l", " ", "i", "n", "t", "r", "e", "s",
      "s", "e", "r", "a", "d">>

\* max_bytes of construct_and_send_notification
TwilioMaxBytes == 1599

NoMessage == [composed |-> FALSE, text |-> <<>>]

\* A handler that goes on to compose and split when nothing changed.
NothingChangedNever(added_by_area, removed_by_area) == FALSE

\* not added_by_area and not removed_by_area
NothingChanged(added_by_area, removed_by_area) ==
    DOMAIN added_by_area = {} /\ DOMAIN removed_by_area = {}

\* What notify_via_twilio hands to notify_whatsapp.
notify_via_twilio(part, from, to) ==
    IF from # <<>> /\ to # <<>> THEN <<part>> ELSE <<>>

\* The whole handler: the message it composed, and the calls it made of
\* split_utf8_smart, of notify_via_twilio and of notify_whatsapp.
construct_and_send_notification(differences, sid, token, from, to) ==
    LET added_by_area == GroupByArea(differences.added)
        removed_by_area == GroupByArea(differences.removed)
        message_parts ==
            format_parking_grp_msg(AddedTitle, added_by_area)
            \o format_parking_grp_msg(RemovedTitle, removed_by_area)
        msg == strip(Join(<<"\n">>, SelectSeq(message_parts, LAMBDA part : part # <<>>)))
        send == sid # <<>> /\ token # <<>>
        parts == IF send THEN split_utf8_smart(msg, TwilioMaxBytes, CompletionToken)
                 ELSE <<>>
    IN  IF NothingChanged(added_by_area, removed_by_area)
        THEN [message |-> NoMessage, split_calls |-> <<>>, notified |-> <<>>,
              whatsapp |-> <<>>]
        ELSE [message |-> [composed |-> TRUE, text |-> msg],
              split_calls |-> IF send
                              THEN << <<msg, TwilioMaxBytes, CompletionToken>> >>
                              ELSE <<>>,
              notified |-> parts,
              whatsapp |-> Concat([i \in DOMAIN parts |->
                                     notify_via_twilio(parts[i], from, to)])]

\* The records a diff is drawn from: two in one area, whose addresses
\* sort differently with and without case, and one in an area written in
\* lower case, with an empty field.
NotifyRecords ==
    { Parking(<<"R", "y", "d">>, <<"B", "1">>, <<"C", "a", "r", "p", "o", "r", "t">>,
              <<"5">>, <<"d">>, <<"3">>),
      Parking(<<"R", "y", "d">>, <<"a", "2">>, <<"k">>, <<"5">>, <<"d">>, <<"2">>),
      Parking(<<"a", "b">>, <<"u2", "1">>, <<"k">>, <<"5">>, <<>>, <<"0">>) }

Differences ==
    { d \in [added : SeqsUpTo(NotifyRecords, MaxNotified),
             removed : SeqsUpTo(NotifyRecords, MaxNotified)] :
        Len(d.added) + Len(d.removed) <= MaxNotified }

\* A setting of the environment: unset, or set.
Settings == {<<>>, <<"x">>}

\* What messages.create does with a message: an instance in a status of
\* success, one in another status, or the exception of the API.
ApiOutcomes == {"queued", "failed", "TwilioRestException"}

NotifyInputs ==
    /\ parking_differences \in Differences
    /\ TWILIO_ACCOUNT_SID \in Settings
    /\ TWILIO_AUTH_TOKEN \in Settings
    /\ WHATSAPP_FROM \in Settings
    /\ WHATSAPP_TO \in Settings
    /\ message = NoMessage
    /\ split_calls = <<>>
    /\ notified = <<>>
    /\ whatsapp = <<>>
    /\ npc = "call"

\* No call of construct_and_send_notification is under way.
NotifyIdle ==
    /\ parking_differences = NoChanges
    /\ TWILIO_ACCOUNT_SID = <<>> /\ TWILIO_AUTH_TOKEN = <<>>
    /\ WHATSAPP_FROM = <<>> /\ WHATSAPP_TO = <<>>
    /\ message = NoMessage /\ split_calls = <<>> /\ notified = <<>>
    /\ whatsapp = <<>> /\ npc = "idle"

ConstructAndSend ==
    /\ npc = "call"
    /\ LET r == construct_and_send_notification(parking_differences,
                    TWILIO_ACCOUNT_SID, TWILIO_AUTH_TOKEN, WHATSAPP_FROM, WHATSAPP_TO)
       IN  /\ message' = r.message
           /\ split_calls' = r.split_calls
           /\ notified' = r.notified
           /\ \E answers \in [DOMAIN r.whatsapp -> ApiOutcomes] :
                 whatsapp' = [i \in DOMAIN r.whatsapp |->
                                [body |-> r.whatsapp[i], answer |-> answers[i]]]
    /\ npc' = "done"
    /\ UNCHANGED <<parking_differences, credVars>>
    /\ UNCHANGED <<splitVars, keyVars, diffVars, storeVars, boundaryVars,
                   mainVars>>

-----------------------------------------------------------------------------
(* The inputs split_utf8_smart is run on.                                  *)

BoundaryChars == {"\n", " ", "-", "t", "a"}
WidthChars == {"\n", "a", "u2", "u3", "u4"}
LineChars == {"a", "u2"}

\* Lines as the composer writes them: a label in emphasis marks, separators
\* with and without surrounding blanks, text with a wide character.
MarkupLines ==
    { <<"T", "_", "t", "\n">>, <<"*", "t", "\n">>, <<"-", "-", "\n">>,
      <<" ", "-", "-", " ", "\r", "\n">>, <<"u2", "a", "\n">>, <<"a", "\n">>,
      <<"\n">> }

BoundaryTexts == SeqsUpTo(BoundaryChars, MaxTextLen)
WidthTexts == SeqsUpTo(WidthChars, MaxWideLen)
LongLines == SeqsUpTo(LineChars, MaxLineLen)
MarkupTexts == {Concat(ls) : ls \in SeqsUpTo(MarkupLines, MaxLines)}

\* The completion token the character-drawn texts are split with, and the
\* one the line-drawn texts are split with.
ShortToken == <<"t">>
MarkupToken == <<"T", "t">>

-----------------------------------------------------------------------------
(* split_utf8_smart as a state machine: one action per branch of its loop. *)

SplitState == [chunks |-> chunks, buf |-> buf, buf_b |-> buf_b]

\* Which branches of the overflow case a line runs through.
OverflowBranches(st, line, maxb, token) ==
    LET c == PreferredCut(st, token)
    IN  (IF last_preferred_boundary_bytes(Concat(st.buf), token) # None
         THEN {"preferred_cut"} ELSE {})
        \cup (IF c # st /\ c.buf # <<>> THEN {"remainder"} ELSE {})
        \cup (IF c.buf_b + utf8len(line) > maxb /\ c.buf # <<>>
              THEN {"forced_flush"} ELSE {})

SplitInputs ==
    /\ \/ text \in BoundaryTexts \cup WidthTexts \cup LongLines
          /\ completion_token = ShortToken
       \/ text \in MarkupTexts /\ completion_token = MarkupToken
    /\ max_bytes \in 1..MaxBytes
    /\ lines = <<>>
    /\ buf = <<>>
    /\ buf_b = 0
    /\ chunks = <<>>
    /\ spc = "call"
    /\ taken = {}

\* No call of split_utf8_smart is under way.
SplitIdle ==
    /\ text = <<>> /\ max_bytes = 0 /\ completion_token = <<>>
    /\ lines = <<>> /\ buf = <<>> /\ buf_b = 0 /\ chunks = <<>>
    /\ spc = "idle" /\ taken = {}

SplitCall ==
    /\ spc = "call"
    /\ lines' = splitlines(text)
    /\ spc' = "loop"
    /\ UNCHANGED <<text, max_bytes, completion_token, buf, buf_b, chunks, taken>>
    /\ UNCHANGED <<keyVars, diffVars, storeVars, notifyVars, boundaryVars,
                   mainVars>>

SplitApply(st, branches) ==
    /\ taken' = taken \cup branches
    /\ chunks' = st.chunks
    /\ buf' = st.buf
    /\ buf_b' = st.buf_b
    /\ lines' = Tail(lines)
    /\ UNCHANGED <<text, max_bytes, completion_token, spc>>
    /\ UNCHANGED <<keyVars, diffVars, storeVars, notifyVars, boundaryVars,
                   mainVars>>

SplitLongLine ==
    /\ spc = "loop" /\ lines # <<>>
    /\ utf8len(Head(lines)) > max_bytes
    /\ SplitApply(LongLineStep(SplitState, Head(lines), max_bytes),
                  {"hard_split"})

SplitOverflow ==
    /\ spc = "loop" /\ lines # <<>>
    /\ utf8len(Head(lines)) <= max_bytes
    /\ buf_b + utf8len(Head(lines)) > max_bytes
    /\ SplitApply(OverflowStep(SplitState, Head(lines), max_bytes,
                               completion_token),
                  OverflowBranches(SplitState, Head(lines), max_bytes,
                                   completion_token))

SplitAppend ==
    /\ spc = "loop" /\ lines # <<>>
    /\ utf8len(Head(lines)) <= max_bytes
    /\ buf_b + utf8len(Head(lines)) <= max_bytes
    /\ SplitApply(AddLine(SplitState, Head(lines)), {"append"})

SplitReturn ==
    /\ spc = "loop" /\ lines = <<>>
    /\ chunks' = flush_chunk(SplitState).chunks
    /\ buf' = <<>>
    /\ spc' = "done"
    /\ UNCHANGED <<text, max_bytes, completion_token, lines, buf_b, taken>>
    /\ UNCHANGED <<keyVars, diffVars, storeVars, notifyVars, boundaryVars,
                   mainVars>>

SplitNext ==
    \/ SplitCall
    \/ SplitLongLine
    \/ SplitOverflow
    \/ SplitAppend
    \/ SplitReturn

-----------------------------------------------------------------------------
(* extract_parking_spaces_from_div, extract_field                          *)

\* ParkingLabel: the label of each field, by the field's name.  The
\* letters a-umlaut and a-ring are written "u2".
ParkingLabel ==
    [access   |-> <<"T", "i", "l", "l", "t", "r", "u2", "d", "e", ":">>,
     address  |-> <<"A", "d", "r", "e", "s", "s", ":">>,
     area     |-> <<"O", "m", "r", "u2", "d", "e", ":">>,
     interest |-> <<"A", "n", "t", "a", "l", " ", "i", "n", "t", "r", "e", "s",
                    "s", "e", ":">>,
     rent     |-> <<"H", "y", "r", "a", ":">>,
     kind     |-> <<"T", "y", "p", "e", ":">>]

\* The argument "\\u00a0" of replace: a backslash and five characters.
EscapedNbsp == <<BS, "u", "0", "0", "a", "0">>

\* The indexes of s at which pat stands.
Occurrences(s, pat) ==
    {i \in 1..(Len(s) - Len(pat) + 1) : SubSeq(s, i, i + Len(pat) - 1) = pat}

Least(S) == CHOOSE i \in S : \A j \in S : i <= j

RECURSIVE Replace(_, _, _)
\* s.replace(old, new), for an old that is not empty: the occurrences
\* from the left, none overlapping the one before.
Replace(s, old, new) ==
    IF Occurrences(s, old) = {} THEN s
    ELSE LET i == Least(Occurrences(s, old))
         IN  SubSeq(s, 1, i - 1) \o new
             \o Replace(SubSeq(s, i + Len(old), Len(s)), old, new)

\* "\n".join(line.strip() for line in txt.splitlines() if line.strip());
\* strip takes the terminator of a line with its white space.
block(txt) ==
    LET stripped == [i \in DOMAIN splitlines(txt) |-> strip(splitlines(txt)[i])]
    IN  Join(<<"\n">>, SelectSeq(stripped, LAMBDA line : line # <<>>))

RECURSIVE SpaceRun(_, _)
\* How many characters \s* can take from index j on.
SpaceRun(s, j) ==
    IF j <= Len(s) /\ IsSpace(s[j]) THEN 1 + SpaceRun(s, j + 1) ELSE 0

\* Where group 1 starts when \s*([^\n\r]+) is tried at index j: \s* takes
\* all it can and gives back until a character other than "\n" and "\r"
\* follows; 0 when none does.
GroupStart(s, j) ==
    LET starts == {p \in j..(j + SpaceRun(s, j)) :
                      p <= Len(s) /\ ~IsLineBreak(s[p])}
    IN  IF starts = {} THEN 0
        ELSE CHOOSE p \in starts : \A q \in starts : q <= p

\* Where [^\n\r]+ ends that starts at index p: before the next "\n" or
\* "\r", or with the text.
GroupEnd(s, p) ==
    LET breaks == {q \in p..Len(s) : IsLineBreak(s[q])}
    IN  IF breaks = {} THEN Len(s) ELSE Least(breaks) - 1

\* re.search(re.escape(label) + r"\s*([^\n\r]+)", block_text): whether it
\* matched, and group 1 of the leftmost match.
re_search(block_text, label) ==
    LET matches == {i \in Occurrences(block_text, label) :
                       GroupStart(block_text, i + Len(label)) # 0}
        p == GroupStart(block_text, Least(matches) + Len(label))
    IN  IF matches = {} THEN [found |-> FALSE, group |-> <<>>]
        ELSE [found |-> TRUE,
              group |-> SubSeq(block_text, p, GroupEnd(block_text, p))]

extract_field(block_text, label) ==
    LET m == re_search(block_text, label)
    IN  IF m.found THEN strip(m.group) ELSE <<>>

\* An element of the page: inner_text() returns its text, or raises
\* PlaywrightError.
Readable(txt) == [ok |-> TRUE, text |-> txt]
Unreadable == [ok |-> FALSE, text |-> <<>>]

\* Parking.model_validate(parking) returns: the six fields and no other,
\* each a str.
model_validate(parking) == DOMAIN parking = ParkingFields

\* One pass of the for loop of extract_parking_spaces_from_div: parking_all
\* after it.
RowStep(parking_all_in, row) ==
    LET txt == Replace(row.text, EscapedNbsp, <<" ">>)
        parking == [f \in ParkingFields |->
                      extract_field(block(txt), ParkingLabel[f])]
    IN  IF ~row.ok THEN parking_all_in                    \* except PlaywrightError
        ELSE IF txt = <<>> THEN parking_all_in            \* if not txt
        ELSE IF \E f \in ParkingFields : ~Contains(txt, ParkingLabel[f])
        THEN parking_all_in                               \* if missing_labels
        ELSE IF (\E f \in ParkingFields : parking[f] # <<>>)
                /\ model_validate(parking)
        THEN Append(parking_all_in, parking)
        ELSE parking_all_in

RECURSIVE extract_parking_spaces_from_div(_, _)
\* parking_all after the call.
extract_parking_spaces_from_div(rows, parking_all_in) ==
    IF rows = <<>> THEN parking_all_in
    ELSE extract_parking_spaces_from_div(Tail(rows), RowStep(parking_all_in, Head(rows)))

\* A line of an element: a label and what follows it.
Labelled(field, value) == ParkingLabel[field] \o value

\* The elements the pages are drawn from.
FullRow ==
    Readable(Join(<<"\n">>, <<Labelled("area", <<" ", "R">>),
                              Labelled("address", <<" ", "g", " ", "1">>),
                              Labelled("kind", <<" ", "k">>),
                              Labelled("rent", <<" ", "5">>),
                              Labelled("access", <<" ", "d">>),
                              Labelled("interest", <<" ", "2">>)>>))

\* The same fields as the browser may lay them out: indented, with blank
\* lines, "\r\n", a value on the line after its label, and the six
\* characters \u00a0 in a value.
UntidyRow ==
    Readable(Join(<<"\r", "\n">>, <<<<" ", "\t">> \o Labelled("area", <<" ", "R", " ">>),
                              <<>>,
                              Labelled("address", <<"\n", " ", "g">> \o EscapedNbsp \o <<"2">>),
                              Labelled("kind", <<"k">>),
                              Labelled("rent", <<" ", "5">>),
                              Labelled("access", <<" ", "d">>),
                              Labelled("interest", <<" ", "2">>), <<>>>>))

\* The last label of the element has no value.
NoKindRow ==
    Readable(Join(<<"\n">>, <<Labelled("area", <<" ", "R">>),
                              Labelled("address", <<" ", "g", " ", "3">>),
                              Labelled("rent", <<" ", "5">>),
                              Labelled("access", <<" ", "d">>),
                              Labelled("interest", <<" ", "2">>),
                              Labelled("kind", <<>>)>>))

\* A label in the middle of the element has no value.
NoRentRow ==
    Readable(Join(<<"\n">>, <<Labelled("area", <<" ", "R">>),
                              Labelled("address", <<" ", "g", " ", "4">>),
                              Labelled("kind", <<" ", "k">>),
                              Labelled("rent", <<>>),
                              Labelled("access", <<" ", "d">>),
                              Labelled("interest", <<" ", "2">>)>>))

\* An element without the label of the rent.
NoLabelRow ==
    Readable(Join(<<"\n">>, <<Labelled("area", <<" ", "R">>),
                              Labelled("address", <<" ", "g", " ", "5">>),
                              Labelled("kind", <<" ", "k">>),
                              Labelled("access", <<" ", "d">>),
                              Labelled("interest", <<" ", "2">>)>>))

-----------------------------------------------------------------------------
(* main, page_scrape, print_results, the signal handlers                   *)

\* The pages of the site: none with elements, or elements of each kind.
Pages ==
    { <<>>,
      <<FullRow, UntidyRow>>,
      <<NoKindRow, NoRentRow>>,
      <<NoLabelRow, Readable(<<>>), Unreadable>> }

Sites == SeqsUpTo(Pages, MaxPages)

\* The pages without a parking space: no element, or elements without
\* text.
QuietPages == {<<>>, <<Readable(<<>>), Unreadable>>}

\* A record of an earlier run, with all its fields, and one whose rent is
\* the empty text.
StoredRecord ==
    Parking(<<"R">>, <<"g", " ", "1">>, <<"k">>, <<"5">>, <<"d">>, <<"2">>)
StoredNoRentRecord ==
    Parking(<<"R">>, <<"g", " ", "9">>, <<"k">>, <<>>, <<"d">>, <<"2">>)

\* The state file main finds: none, what an earlier run saved, a file
\* with the record of the empty rent, and one that is not UTF-8.
MainFiles ==
    { NoFile,
      FileWith(SaveContent(<<StoredRecord>>)),
      FileWith(SaveContent(<<StoredNoRentRecord>>)),
      FileWith(<<Tok("badbyte")>>) }

\* The sort key of print_results.
PrintKey(p) ==
    <<lower(p.area), lower(p.address), lower(p.kind), lower(p.rent),
      lower(p.interest), lower(p.access)>>

RECURSIVE InsertByPrintKey(_, _)
InsertByPrintKey(sorted, p) ==
    IF sorted = <<>> THEN <<p>>
    ELSE IF TupleLess(PrintKey(p), PrintKey(Head(sorted))) THEN <<p>> \o sorted
    ELSE <<Head(sorted)>> \o InsertByPrintKey(Tail(sorted), p)

RECURSIVE print_results(_)
\* parking_all after print_results: parking_all.sort(key=...), stable.
print_results(parkings) ==
    IF parkings = <<>> THEN <<>>
    ELSE InsertByPrintKey(print_results(SubSeq(parkings, 1, Len(parkings) - 1)),
                          parkings[Len(parkings)])

\* The variables of the other handlers that main leaves alone.
mainFrame ==
    <<splitVars, keyVars, boundaryVars, credVars, site, last_op, prev_op,
      previous_parkings, current_parkings, dpc>>

notifyState ==
    <<parking_differences, message, split_calls, notified, whatsapp, npc>>

\* A main that notifies as soon as its loop is left.
BehindLoopNotifies == "notify"

\* Where main goes on behind its loop and the with statement: at the call
\* of parking_state_save.
BehindLoop == "save"

\* The positions of main inside its try statement.
InTry == {"while", "page_load", "page_scrape", "compare"}

\* main is over: sys.exit, a return, or an exception nothing catches.
Ends(status) ==
    /\ mpc' = "exited"
    /\ exit_status' = status

Goes(position) ==
    /\ mpc' = position
    /\ exit_status' = exit_status

MainInputs ==
    /\ site \in Sites
    /\ state_file \in MainFiles
    /\ last_op = NoOp /\ prev_op = NoOp
    /\ DiffIdle
    /\ TWILIO_ACCOUNT_SID \in Settings
    /\ TWILIO_AUTH_TOKEN = <<"x">> /\ WHATSAPP_FROM = <<"x">> /\ WHATSAPP_TO = <<"x">>
    /\ parking_differences = NoChanges
    /\ message = NoMessage /\ split_calls = <<>> /\ notified = <<>>
    /\ whatsapp = <<>> /\ npc = "idle"
    /\ mpc = "load" /\ stop = FALSE /\ spinner = FALSE /\ curr_page = 0
    /\ parking_previous = <<>> /\ parking_all = <<>> /\ calls = <<>>
    /\ exit_status = "running"

\* main is not run.
MainIdle ==
    /\ site = <<>> /\ mpc = "idle" /\ stop = FALSE /\ spinner = FALSE
    /\ curr_page = 0 /\ parking_previous = <<>> /\ parking_all = <<>>
    /\ calls = <<>> /\ exit_status = "none"

\* CACHE_DIR.mkdir and parking_state_load.
MainLoad ==
    /\ mpc = "load"
    /\ \E made \in BOOLEAN :
          IF ~made
          THEN /\ Ends("exit 1")
               /\ UNCHANGED <<state_file, parking_previous>>
          ELSE \E fault \in LoadFaults(state_file) :
                  LET r == parking_state_load(state_file, fault)
                  IN  /\ state_file' = r.file
                      /\ parking_previous' = r.value
                      /\ IF r.outcome = "returned" THEN Goes("setup")
                         ELSE Ends(r.outcome)
    /\ UNCHANGED <<mainFrame, notifyState, parking_changes, stop, spinner,
                   curr_page, parking_all, calls>>

\* validate_and_display_areas, the launch of the browser, the start of
\* the spinner unless logging is enabled, and the two lists.
MainSetup ==
    /\ mpc = "setup"
    /\ \E valid \in BOOLEAN, logging \in BOOLEAN :
          IF ~valid
          THEN Ends("exit 1") /\ UNCHANGED spinner
          ELSE Goes("while") /\ spinner' = ~logging
    /\ parking_all' = <<>>
    /\ parking_changes' = NoChanges
    /\ UNCHANGED <<mainFrame, notifyState, state_file, stop, curr_page,
                   parking_previous, calls>>

\* while not stop.is_set(); behind the loop the finally clause closes the
\* page and the browser.
MainWhile ==
    /\ mpc = "while"
    /\ IF stop THEN Goes(BehindLoop) ELSE Goes("page_load")
    /\ UNCHANGED <<mainFrame, notifyState, state_file, parking_changes, stop,
                   spinner, curr_page, parking_previous, parking_all, calls>>

\* page_load and dismiss_cookie_banner: they return, or exit with 1.
MainPageLoad ==
    /\ mpc = "page_load"
    /\ \E loaded \in BOOLEAN :
          IF loaded THEN Goes("page_scrape") /\ curr_page' = 1
          ELSE Ends("exit 1") /\ UNCHANGED curr_page
    /\ UNCHANGED <<mainFrame, notifyState, state_file, parking_changes, stop,
                   spinner, parking_previous, parking_all, calls>>

\* One pass of the loop of page_scrape.  The site links to the next page
\* when it has one; the click on the link succeeds, or page_scrape exits
\* with 1.  Behind the loop sp.stop() stops the spinner, which puts back
\* the handlers it found.
MainScrapePage ==
    /\ mpc = "page_scrape"
    /\ LET rows == IF curr_page <= Len(site) THEN site[curr_page] ELSE <<>>
           found == extract_parking_spaces_from_div(rows, parking_all)
       IN  IF rows = <<>>
           THEN /\ Goes("compare")
                /\ spinner' = FALSE
                /\ curr_page' = 0
                /\ UNCHANGED parking_all
           ELSE /\ Len(found) <= MaxScraped
                /\ parking_all' = found
                /\ IF curr_page < Len(site)
                   THEN /\ \E clicked \in BOOLEAN :
                              IF clicked
                              THEN Goes("page_scrape") /\ curr_page' = curr_page + 1
                              ELSE Ends("exit 1") /\ UNCHANGED curr_page
                        /\ UNCHANGED spinner
                   ELSE /\ Goes("compare")
                        /\ spinner' = FALSE
                        /\ curr_page' = 0
    /\ UNCHANGED <<mainFrame, notifyState, state_file, parking_changes, stop,
                   parking_previous, calls>>

\* A loop that saves the snapshot in each pass, behind the comparison.
MainCompareSaves ==
    /\ mpc = "compare"
    /\ parking_changes' = compare_parkings(parking_previous, parking_all)
    /\ state_file' \in parking_state_save(state_file, parking_all, "none")
    /\ calls' = Append(calls, "parking_state_save")
    /\ Goes("while")
    /\ UNCHANGED <<mainFrame, notifyState, stop, spinner, curr_page,
                   parking_previous, parking_all>>

\* parking_changes = compare_parkings(parking_previous, parking_all)
MainCompare ==
    /\ mpc = "compare"
    /\ parking_changes' = compare_parkings(parking_previous, parking_all)
    /\ Goes("while")
    /\ UNCHANGED <<mainFrame, notifyState, state_file, stop, spinner, curr_page,
                   parking_previous, parking_all, calls>>

\* parking_state_save(parking_all)
MainSave ==
    /\ mpc = "save"
    /\ \E fault \in {"none", "open", "write"} :
          state_file' \in parking_state_save(state_file, parking_all, fault)
    /\ calls' = Append(calls, "parking_state_save")
    /\ Goes("print")
    /\ UNCHANGED <<mainFrame, notifyState, parking_changes, stop, spinner,
                   curr_page, parking_previous, parking_all>>

\* print_results(parking_all)
MainPrint ==
    /\ mpc = "print"
    /\ parking_all' = print_results(parking_all)
    /\ calls' = Append(calls, "print_results")
    /\ Goes("notify")
    /\ UNCHANGED <<mainFrame, notifyState, state_file, parking_changes, stop,
                   spinner, curr_page, parking_previous>>

\* construct_and_send_notification(parking_changes), and main returns.
MainNotify ==
    /\ mpc = "notify"
    /\ LET r == construct_and_send_notification(parking_changes,
                    TWILIO_ACCOUNT_SID, TWILIO_AUTH_TOKEN, WHATSAPP_FROM, WHATSAPP_TO)
       IN  /\ parking_differences' = parking_changes
           /\ message' = r.message
           /\ split_calls' = r.split_calls
           /\ notified' = r.notified
           /\ \E answers \in [DOMAIN r.whatsapp -> ApiOutcomes] :
                 whatsapp' = [i \in DOMAIN r.whatsapp |->
                                [body |-> r.whatsapp[i], answer |-> answers[i]]]
    /\ npc' = "done"
    /\ calls' = Append(calls, "construct_and_send_notification")
    /\ Ends("returned")
    /\ UNCHANGED <<mainFrame, state_file, parking_changes, stop, spinner,
                   curr_page, parking_previous, parking_all>>

\* SIGINT or SIGTERM reaches the process.  While the spinner runs SIGINT
\* is handled by sig_handler_yaspin: sys.exit(1).  Otherwise by handler:
\* stop.set(), then signal.default_int_handler raises KeyboardInterrupt in
\* the main thread, where main stands: inside the try statement main
\* returns 130, outside of it nothing catches the exception.  The
\* exception of a handler is lost when the signal interrupts code whose
\* exceptions the interpreter discards (a finalizer, a callback of the
\* garbage collector): main goes on from where it stands.
Interrupt ==
    /\ mpc \notin {"idle", "exited"}
    /\ \E signum \in {"SIGINT", "SIGTERM"}, raised \in BOOLEAN :
          IF spinner /\ signum = "SIGINT"
          THEN /\ UNCHANGED stop
               /\ spinner' = FALSE
               /\ IF raised THEN Ends("exit 1") ELSE Goes(mpc)
          ELSE /\ stop' = TRUE
               /\ UNCHANGED spinner
               /\ IF ~raised THEN Goes(mpc)
                  ELSE IF mpc \in InTry THEN Ends("return 130")
                  ELSE Ends("KeyboardInterrupt")
    /\ UNCHANGED <<mainFrame, notifyState, state_file, parking_changes, curr_page,
                   parking_previous, parking_all, calls>>

\* A step of the program.
MainStep ==
    \/ MainLoad
    \/ MainSetup
    \/ MainWhile
    \/ MainPageLoad
    \/ MainScrapePage
    \/ MainCompare
    \/ MainSave
    \/ MainPrint
    \/ MainNotify

MainNext ==
    \/ MainStep
    \/ Interrupt

\* last_preferred_boundary_bytes called on its own, on the texts drawn
\* line by line.
BoundaryInputs ==
    /\ boundary_text \in MarkupTexts
    /\ boundary_token = MarkupToken
    /\ boundary_cut = None
    /\ bpc = "call"

\* No call of last_preferred_boundary_bytes is under way.
BoundaryIdle ==
    /\ boundary_text = <<>> /\ boundary_token = <<>>
    /\ boundary_cut = None /\ bpc = "idle"

BoundarySearch ==
    /\ bpc = "call"
    /\ boundary_cut' = last_preferred_boundary_bytes(boundary_text, boundary_token)
    /\ bpc' = "done"
    /\ UNCHANGED <<boundary_text, boundary_token>>
    /\ UNCHANGED <<splitVars, keyVars, diffVars, storeVars, notifyVars, mainVars>>

SplitInit == SplitInputs /\ KeyIdle /\ DiffIdle /\ StoreIdle /\ NotifyIdle
    /\ BoundaryIdle
    /\ MainIdle

SpecSplit == SplitInit /\ [][SplitNext]_vars

KeyInit == KeyInputs /\ SplitIdle /\ DiffIdle /\ StoreIdle /\ NotifyIdle
    /\ BoundaryIdle
    /\ MainIdle

KeyNext == KeyIdentify

SpecKey == KeyInit /\ [][KeyNext]_vars

DiffInit == DiffInputs /\ SplitIdle /\ KeyIdle /\ StoreIdle /\ NotifyIdle
    /\ BoundaryIdle
    /\ MainIdle

DiffNext == Compare

SpecDiff == DiffInit /\ [][DiffNext]_vars

StoreInit == StoreInputs /\ SplitIdle /\ KeyIdle /\ DiffIdle /\ NotifyIdle
    /\ BoundaryIdle
    /\ MainIdle

StoreNext ==
    \/ EnvWrite
    \/ EnvRemove
    \/ Load
    \/ Save

SpecStore == StoreInit /\ [][StoreNext]_vars

NotifyInit == NotifyInputs /\ SplitIdle /\ KeyIdle /\ DiffIdle /\ StoreIdle
    /\ BoundaryIdle
    /\ MainIdle

NotifyNext == ConstructAndSend

SpecNotify == NotifyInit /\ [][NotifyNext]_vars

BoundaryInit ==
    BoundaryInputs /\ SplitIdle /\ KeyIdle /\ DiffIdle /\ StoreIdle
    /\ NotifyIdle /\ MainIdle

BoundaryNext == BoundarySearch

SpecBoundary == BoundaryInit /\ [][BoundaryNext]_vars

MainInit == MainInputs /\ SplitIdle /\ KeyIdle /\ BoundaryIdle

SpecMain == MainInit /\ [][MainNext]_vars

\* main on a site that offers no parking space, with no state file or
\* one that cannot be read.  The interpreter goes on executing the program
\* as long as main has a step to take; no signal needs to arrive.
MainFairInit ==
    /\ MainInit
    /\ site \in SeqsUpTo(QuietPages, MaxPages)
    /\ state_file \in {NoFile, FileWith(<<Tok("badbyte")>>)}

SpecMainFair == MainFairInit /\ [][MainNext]_vars /\ WF_vars(MainStep)

-----------------------------------------------------------------------------
(* Properties of split_utf8_smart.                                         *)

RECURSIVE WidestChar(_)
WidestChar(s) ==
    IF s = <<>> THEN 0
    ELSE LET w == CharBytes(Head(s))
             r == WidestChar(Tail(s))
         IN  IF w > r THEN w ELSE r

CharWidths(s) == {CharBytes(s[i]) : i \in 1..Len(s)}

ChunksWithinBudget == \A i \in 1..Len(chunks) : utf8len(chunks[i]) <= max_bytes

C2_RoundTrip ==
    spc = "done" => Concat(chunks) = text

\* A finished call that made a preferred cut leaving a remainder, a forced
\* flush and a hard split.
C2_Witness ==
    /\ spc = "done"
    /\ {"preferred_cut", "remainder", "forced_flush", "hard_split"} \subseteq taken
    /\ Len(chunks) >= 4

\* The text of the boundary-preference scenario: a line with the completion
\* token, a blank line, then filler lines, none longer than max_bytes, none
\* a separator, none with the token; the first two lines fit in max_bytes
\* and the whole text does not.
CompletionThenFiller ==
    LET ls == splitlines(text)
    IN  /\ Len(ls) >= 3
        /\ _is_completion_line(ls[1], completion_token)
        /\ strip(ls[1]) # <<>>
        /\ strip(ls[2]) = <<>>
        /\ \A i \in 3..Len(ls) :
               /\ utf8len(ls[i]) <= max_bytes
               /\ strip(ls[i]) # Separator
               /\ ~_is_completion_line(ls[i], completion_token)
        /\ utf8len(ls[1]) + utf8len(ls[2]) <= max_bytes
        /\ utf8len(text) > max_bytes

FirstChunkIsCompletionBlock ==
    LET ls == splitlines(text)
    IN  chunks # <<>> /\ chunks[1] = ls[1] \o ls[2]

\* C8 as stated: in the scenario above the first chunk is exactly the
\* completion line and the blank line, whatever the filler lines are.
C8_CutAfterBlankAnyFiller ==
    spc = "done" /\ CompletionThenFiller => FirstChunkIsCompletionBlock

\* C8 as amended: in the scenario above, when the first filler line is not
\* blank, the first chunk is exactly the completion line and the blank
\* line.  (A blank filler line right after the blank line is a completion
\* boundary too: the most recent non-empty line is still the completion
\* line.)
C8_CutAfterBlank ==
    spc = "done" /\ CompletionThenFiller /\ strip(splitlines(text)[3]) # <<>>
        => FirstChunkIsCompletionBlock

\* A finished call of the scenario in which filler was in the buffer when
\* the cut was made: the cut left it behind as the remainder.
C8_Witness ==
    /\ spc = "done"
    /\ CompletionThenFiller
    /\ strip(splitlines(text)[3]) # <<>>
    /\ {"preferred_cut", "remainder"} \subseteq taken
    /\ FirstChunkIsCompletionBlock

NoLineBreak(s) == \A i \in 1..Len(s) : ~IsLineBreak(s[i])

CeilDiv(a, b) == (a + b - 1) \div b

\* C9 as stated: a single line of 3 * max_bytes bytes, whatever its
\* characters, is returned as exactly ceil(length / max_bytes) chunks of at
\* most max_bytes bytes each, which concatenate to the line.
C9_OversizedLineAnyContent ==
    spc = "done" /\ NoLineBreak(text) /\ utf8len(text) = 3 * max_bytes
        => /\ Len(chunks) = CeilDiv(utf8len(text), max_bytes)
           /\ ChunksWithinBudget
           /\ Concat(chunks) = text

\* C9 as amended: a single line of 3 * max_bytes single-byte characters is
\* returned as exactly ceil(length / max_bytes) chunks of at most max_bytes
\* bytes each, which concatenate to the line.
C9_OversizedLine ==
    spc = "done" /\ NoLineBreak(text) /\ WidestChar(text) = 1
                 /\ Len(text) = 3 * max_bytes
        => /\ Len(chunks) = CeilDiv(Len(text), max_bytes)
           /\ ChunksWithinBudget
           /\ Concat(chunks) = text

\* A finished call on a line of nine single-byte characters with
\* max_bytes = 3.
C9_Witness ==
    /\ spc = "done"
    /\ NoLineBreak(text) /\ WidestChar(text) = 1
    /\ max_bytes = 3 /\ Len(text) = 9
    /\ Len(chunks) = 3
    /\ taken = {"hard_split"}

HasSeparatorLine(s) ==
    \E i \in DOMAIN splitlines(s) : strip(splitlines(s)[i]) = Separator

\* A blank line right behind a non-empty line with the token.
HasCompletionBoundary(s, token) ==
    LET ls == splitlines(s)
    IN  \E i \in 2..Len(ls) :
            /\ strip(ls[i]) = <<>>
            /\ strip(ls[i - 1]) # <<>>
            /\ _is_completion_line(ls[i - 1], token)

\* C11: for a non-empty text of at most max_bytes bytes split_utf8_smart
\* returns exactly one chunk, the text itself, separator lines and
\* completion boundaries in the text or not.
C11_FittingTextIsOneChunk ==
    spc = "done" /\ text # <<>> /\ utf8len(text) <= max_bytes
        => chunks = <<text>>

\* A finished call on a text that fits, with a separator line and a
\* completion boundary in it.
C11_Witness ==
    /\ spc = "done"
    /\ text # <<>> /\ utf8len(text) <= max_bytes
    /\ HasSeparatorLine(text)
    /\ HasCompletionBoundary(text, completion_token)
    /\ chunks = <<text>>

\* Where each of the parts ends in their concatenation, counted in
\* characters: 0 for none of them, then one offset per part.
Stops(parts) == [n \in 0..Len(parts) |-> Len(Concat(SubSeq(parts, 1, n)))]

\* C16: every line of the text that is not longer than max_bytes lies
\* whole in exactly one chunk; a chunk ends at the end of a line (or
\* where the text starts), or inside a line longer than max_bytes.
C16_LinesAreWhole ==
    spc = "done" =>
        LET text_lines == splitlines(text)
            line_stop == Stops(text_lines)
            chunk_stop == Stops(chunks)
        IN  /\ Concat(chunks) = text
            /\ \A i \in DOMAIN text_lines :
                   utf8len(text_lines[i]) <= max_bytes =>
                       Cardinality({k \in DOMAIN chunks :
                                       /\ chunk_stop[k - 1] <= line_stop[i - 1]
                                       /\ line_stop[i] <= chunk_stop[k]}) = 1
            /\ \A k \in DOMAIN chunks :
                   \/ \E i \in 0..Len(text_lines) : chunk_stop[k] = line_stop[i]
                   \/ \E i \in DOMAIN text_lines :
                         /\ utf8len(text_lines[i]) > max_bytes
                         /\ line_stop[i - 1] < chunk_stop[k]
                         /\ chunk_stop[k] < line_stop[i]

\* A finished call on a text of lines that fit and a line that does not:
\* it made a preferred cut and a forced flush, and hard-split the long
\* line.
C16_Witness ==
    /\ spc = "done"
    /\ Len(splitlines(text)) >= 3
    /\ \E i \in DOMAIN splitlines(text) : utf8len(splitlines(text)[i]) > max_bytes
    /\ \E i \in DOMAIN splitlines(text) :
          /\ Len(splitlines(text)[i]) >= 2
          /\ utf8len(splitlines(text)[i]) <= max_bytes
    /\ {"preferred_cut", "forced_flush", "hard_split"} \subseteq taken
    /\ Len(chunks) >= 4

\* C23: for every text and every max_bytes that is at least the width of
\* the widest code point, 4 bytes, no chunk returned by split_utf8_smart is
\* the empty string, and the empty text gives no chunk at all.
C23_NoEmptyChunk ==
    (spc = "done" /\ max_bytes >= CharBytes("u4")) =>
        /\ \A k \in DOMAIN chunks : chunks[k] # <<>>
        /\ text = <<>> => chunks = <<>>

\* A split with max_bytes 4 of a text with a code point of 4 bytes in a
\* line longer than max_bytes: the line was cut between its characters,
\* into three chunks or more.
C23_Witness ==
    /\ spc = "done" /\ max_bytes = CharBytes("u4")
    /\ \E i \in DOMAIN text : text[i] = "u4"
    /\ \E ln \in {splitlines(text)[i] : i \in DOMAIN splitlines(text)} :
           utf8len(ln) > max_bytes
    /\ Len(chunks) >= 3
    /\ \A k \in DOMAIN chunks : chunks[k] # <<>>

-----------------------------------------------------------------------------
(* Properties of parking_key_identifier and compare_parkings.              *)

KeysComputed == key_result # <<>>

SameKey == key_result[1] = key_result[2]

NoDelimiter(parking) ==
    \A f \in ParkingFields : ~Contains(parking[f], <<"|">>)

Compared == dpc = "done"

AddedKeys == Keys(parking_changes.added)
RemovedKeys == Keys(parking_changes.removed)
CommonKeys == Keys(previous_parkings) \cap Keys(current_parkings)

\* C3: by identity key, no added record is in the previous snapshot, no
\* removed record is in the current one, added with the common keys is the
\* current snapshot and removed with the common keys is the previous one.
C3_DiffPartition ==
    Compared =>
        /\ AddedKeys \cap Keys(previous_parkings) = {}
        /\ RemovedKeys \cap Keys(current_parkings) = {}
        /\ AddedKeys \cup CommonKeys = Keys(current_parkings)
        /\ RemovedKeys \cup CommonKeys = Keys(previous_parkings)

\* A diff with added records, removed records and common keys, one common
\* key being shared by two records that are not equal.
C3_Witness ==
    /\ Compared
    /\ parking_changes.added # <<>>
    /\ parking_changes.removed # <<>>
    /\ \E i \in 1..Len(previous_parkings), j \in 1..Len(current_parkings) :
           /\ previous_parkings[i] # current_parkings[j]
           /\ parking_key_identifier(previous_parkings[i])
                  = parking_key_identifier(current_parkings[j])

\* C4: comparing a snapshot with itself yields no added and no removed
\* record, repeated records or not.
C4_DiffOfSelfIsEmpty ==
    Compared /\ previous_parkings = current_parkings
        => parking_changes = NoChanges

\* A snapshot with a repeated record, compared with itself.
C4_Witness ==
    /\ Compared
    /\ previous_parkings = current_parkings
    /\ Len(current_parkings) >= 3
    /\ current_parkings[1] = current_parkings[2]
    /\ parking_changes = NoChanges

\* The number of records of a list that have the identity key.
CountOfKey(parkings, key) ==
    Cardinality({i \in 1..Len(parkings) :
                    parking_key_identifier(parkings[i]) = key})

\* C20 as stated: an identity key that several records of the current
\* snapshot have and no record of the previous one has is in added only
\* once; likewise for removed and the keys repeated in the previous
\* snapshot.
C20_DiffHasEachKeyOnce ==
    Compared =>
        /\ \A key \in AddedKeys : CountOfKey(parking_changes.added, key) = 1
        /\ \A key \in RemovedKeys : CountOfKey(parking_changes.removed, key) = 1

\* C20 as amended: an identity key that no record of the previous
\* snapshot has is in added as many times as it is in the current
\* snapshot; likewise for removed and the keys of the previous snapshot
\* that no record of the current one has.
C20_DiffKeepsRepeatedKeys ==
    Compared =>
        /\ \A key \in Keys(current_parkings) \ Keys(previous_parkings) :
               CountOfKey(parking_changes.added, key)
                   = CountOfKey(current_parkings, key)
        /\ \A key \in Keys(previous_parkings) \ Keys(current_parkings) :
               CountOfKey(parking_changes.removed, key)
                   = CountOfKey(previous_parkings, key)

\* A diff of a current snapshot that has two records of one identity key
\* which the previous snapshot, not empty, does not have: both are in
\* added.
C20_Witness ==
    /\ Compared
    /\ previous_parkings # <<>>
    /\ \E key \in Keys(current_parkings) \ Keys(previous_parkings) :
           /\ CountOfKey(current_parkings, key) >= 2
           /\ CountOfKey(parking_changes.added, key) >= 2

-----------------------------------------------------------------------------
(* Properties of parking_state_load and parking_state_save.                *)

Loaded == last_op.op = "load"

\* The load came right after the file was filled with content that is no
\* valid JSON array of records, and the file system raised no error of
\* its own.
LoadedCorruptContent ==
    /\ Loaded /\ last_op.fault = "none"
    /\ prev_op.op = "env_write" /\ prev_op.arg \in CorruptContents

\* C6: after the state file is filled with content that is no valid JSON
\* array of records (malformed, of the wrong shape, with missing or extra
\* fields, or not UTF-8), parking_state_load returns an empty snapshot
\* without raising, and the file no longer exists.
C6_CorruptionRecovery ==
    LoadedCorruptContent =>
        /\ last_op.outcome = "returned"
        /\ last_op.value = <<>>
        /\ ~state_file.exists

\* The load came right after a save that succeeded.
LoadedAfterSave ==
    /\ Loaded /\ last_op.fault = "none"
    /\ prev_op.op = "save" /\ prev_op.fault = "none"

LoadStep == last_op'.op = "load" /\ prev_op' = last_op

ReturnedEmpty == last_op'.outcome = "returned" /\ last_op'.value = <<>>

\* The file holds a snapshot: text that parses as a list of records.
HoldsSnapshot(file) ==
    file.exists /\ IsUtf8(file.content) /\ validate_json(file.content).ok

\* C21: parking_state_load changes the file only when its content is
\* corrupted. With no file, or with an error of the file system other
\* than the absence of the file when reading, it returns an empty snapshot
\* and neither creates nor removes a file; with a valid snapshot in the
\* file it returns that snapshot and leaves the file as it was.
C21_LoadChangesFileOnlyIfCorrupt ==
    [][ LoadStep =>
          /\ ~state_file.exists => ReturnedEmpty /\ state_file' = state_file
          /\ last_op'.fault = "read" => ReturnedEmpty /\ state_file' = state_file
          /\ (HoldsSnapshot(state_file) /\ last_op'.fault = "none") =>
                 /\ last_op'.outcome = "returned"
                 /\ last_op'.value = validate_json(state_file.content).value
                 /\ state_file' = state_file
          /\ state_file' # state_file =>
                 /\ state_file.exists /\ ~HoldsSnapshot(state_file)
                 /\ ~state_file'.exists ]_vars

\* A load that met an error of the file system when reading a file with
\* a snapshot of at least one record: it returned the empty snapshot, and
\* the file is there with its snapshot.
C21_Witness ==
    /\ Loaded /\ last_op.fault = "read"
    /\ last_op.outcome = "returned" /\ last_op.value = <<>>
    /\ HoldsSnapshot(state_file)
    /\ validate_json(state_file.content).value # <<>>

-----------------------------------------------------------------------------
(* Properties of construct_and_send_notification.                          *)

Sent == npc = "done"

EmptyDiff ==
    parking_differences.added = <<>> /\ parking_differences.removed = <<>>

\* C10: when both the added and the removed collection of the diff are
\* empty, construct_and_send_notification composes no message and calls
\* neither the splitter nor the notifier, whatever the four Twilio
\* settings are.
C10_EmptyDiffIsSilent ==
    (Sent /\ EmptyDiff) =>
        /\ ~message.composed
        /\ split_calls = <<>>
        /\ notified = <<>>
        /\ whatsapp = <<>>

\* The handler has returned from an empty diff with all four settings set,
\* so that only the early return kept it from the splitter.
C10_Witness ==
    /\ Sent /\ EmptyDiff
    /\ TWILIO_ACCOUNT_SID # <<>> /\ TWILIO_AUTH_TOKEN # <<>>
    /\ WHATSAPP_FROM # <<>> /\ WHATSAPP_TO # <<>>
    /\ ~message.composed /\ split_calls = <<>> /\ notified = <<>>

Composed == Sent /\ message.composed

\* The lines of the message, each without its line break and the blanks
\* before it.
MessageLines ==
    LET raw == splitlines(message.text)
    IN  [k \in DOMAIN raw |-> rstrip(raw[k])]

\* An area header: a line that begins and ends with "*".
IsHeader(ln) ==
    Len(ln) >= 2 /\ ln[1] = "*" /\ ln[Len(ln)] = "*"

\* The area name between the emphasis marks of a header.
HeaderArea(ln) == SubSeq(ln, 2, Len(ln) - 1)

\* The pairs of area names of two headers of one section of the message,
\* the first above the second.
HeaderPairs ==
    LET shown == MessageLines
        titles == {k \in DOMAIN shown : shown[k] = RemovedTitle}
        headers == {k \in DOMAIN shown : IsHeader(shown[k])}
    IN  { <<HeaderArea(shown[i]), HeaderArea(shown[j])>> :
            <<i, j>> \in {p \in headers \X headers :
                             /\ p[1] < p[2]
                             /\ \A k \in titles : k < p[1] \/ p[2] < k} }

\* C18 as stated: in every composed message the area headers of a section
\* stand in the order of their case-folded names.
C18_HeadersInFoldedOrder ==
    Composed =>
        \A pair \in HeaderPairs :
            ~StrLess(casefold(pair[2]), casefold(pair[1]))

\* C18 as amended: the area headers of a section stand in the order of
\* their names as written, compared code point by code point, so that a
\* name in upper case precedes every name in lower case.
C18_HeadersInCodePointOrder ==
    Composed =>
        \A pair \in HeaderPairs : StrLess(pair[1], pair[2])

\* A composed message with two headers in one section whose order by code
\* points is the reverse of their order by case-folded names.
C18_Witness ==
    /\ Composed
    /\ \E pair \in HeaderPairs :
           StrLess(casefold(pair[2]), casefold(pair[1]))

\* The last line of a Record block: the line of the interest count.
IsInterestLine(ln) ==
    /\ Len(ln) >= Len(InterestLabel)
    /\ SubSeq(ln, 1, Len(InterestLabel)) = InterestLabel

\* C19: in every composed message a blank line follows the last Record
\* block of each area, of the added and of the removed section, the last
\* area of the added section before a removed section included: a Record
\* block that does not end at a "--" line ends at a blank line.
C19_BlankLineAfterArea ==
    Composed =>
        LET shown == MessageLines
        IN  \A k \in DOMAIN shown :
                IsInterestLine(shown[k]) =>
                    \/ k < Len(shown) /\ strip(shown[k + 1]) = Separator
                    \/ k < Len(shown) /\ shown[k + 1] = <<>>

-----------------------------------------------------------------------------
(* Properties of last_preferred_boundary_bytes.                            *)

Searched == bpc = "done"

BoundaryLines == splitlines(boundary_text)

IsBlank(ln) == strip(ln) = <<>>

\* The byte offset behind line i of the text.
OffsetBehind(i) == utf8len(Concat(SubSeq(BoundaryLines, 1, i)))

\* Rule B: the offsets behind the lines that are '--'.
RuleBCuts ==
    {OffsetBehind(i) : i \in {j \in DOMAIN BoundaryLines :
                                 strip(BoundaryLines[j]) = Separator}}

\* Rule A with "immediately preceded": the offsets behind the blank lines
\* whose direct predecessor is a non-empty line with the token.
RuleACutsDirect ==
    {OffsetBehind(i) : i \in {j \in 2..Len(BoundaryLines) :
        /\ IsBlank(BoundaryLines[j])
        /\ ~IsBlank(BoundaryLines[j - 1])
        /\ _is_completion_line(BoundaryLines[j - 1], boundary_token)}}

\* Rule A with "preceded": the offsets behind the blank lines whose nearest
\* non-empty line before them has the token.
RuleACutsNearest ==
    {OffsetBehind(i) : i \in {j \in 2..Len(BoundaryLines) :
        /\ IsBlank(BoundaryLines[j])
        /\ \E k \in 1..(j - 1) :
               /\ ~IsBlank(BoundaryLines[k])
               /\ _is_completion_line(BoundaryLines[k], boundary_token)
               /\ \A m \in (k + 1)..(j - 1) : IsBlank(BoundaryLines[m])}}

Largest(S) == CHOOSE x \in S : \A y \in S : y <= x

LastOf(cuts) == IF cuts = {} THEN None ELSE Largest(cuts)

\* C12 as stated, Rule A being the blank line immediately preceded by a
\* completion line: last_preferred_boundary_bytes returns the largest
\* offset among the cut points of both rules, and None exactly when there
\* is none.
C12_LastCutWinsDirectRuleA ==
    Searched => boundary_cut = LastOf(RuleACutsDirect \cup RuleBCuts)

\* C12 as amended, Rule A being the blank line whose nearest non-empty line
\* before it is a completion line: last_preferred_boundary_bytes returns
\* the largest offset among the cut points of both rules, and None exactly
\* when there is none.
C12_LastCutWins ==
    Searched => boundary_cut = LastOf(RuleACutsNearest \cup RuleBCuts)

\* A search in a text with cut points of both rules, in which a Rule A cut
\* lies behind every Rule B cut and was returned.
C12_Witness ==
    /\ Searched
    /\ RuleBCuts # {}
    /\ RuleACutsNearest # {}
    /\ Largest(RuleACutsNearest) > Largest(RuleBCuts)
    /\ boundary_cut = Largest(RuleACutsNearest)


\* The text ends with a blank line, and the cut returned lies behind it:
\* this blank line gave a candidate, and only Rule A gives one behind a
\* blank line.
LastLineIsRuleACut ==
    /\ Searched
    /\ BoundaryLines # <<>>
    /\ IsBlank(BoundaryLines[Len(BoundaryLines)])
    /\ boundary_cut = utf8len(boundary_text)

\* C17 as stated: a blank line gives a Rule A candidate only if the line
\* immediately before it is a non-empty line with the completion token.
\* Stated of the last line of the text, each text of the model being
\* searched with each of its blank lines as the last.
C17_DirectPredecessorCompletes ==
    LastLineIsRuleACut =>
        /\ Len(BoundaryLines) >= 2
        /\ ~IsBlank(BoundaryLines[Len(BoundaryLines) - 1])
        /\ _is_completion_line(BoundaryLines[Len(BoundaryLines) - 1],
                               boundary_token)

\* C17 as amended: a blank line gives a Rule A candidate only if the
\* nearest non-empty line before it, blank lines between them or not, has
\* the completion token; with no non-empty line before it, or one without
\* the token, it gives none.
C17_NearestPredecessorCompletes ==
    LastLineIsRuleACut =>
        \E k \in 1..(Len(BoundaryLines) - 1) :
            /\ ~IsBlank(BoundaryLines[k])
            /\ _is_completion_line(BoundaryLines[k], boundary_token)
            /\ \A m \in (k + 1)..(Len(BoundaryLines) - 1) :
                   IsBlank(BoundaryLines[m])

\* A search that returned the cut behind a blank line whose direct
\* predecessor is blank too, the completion line standing before both.
C17_Witness ==
    /\ LastLineIsRuleACut
    /\ Len(BoundaryLines) >= 3
    /\ IsBlank(BoundaryLines[Len(BoundaryLines) - 1])
    /\ RuleBCuts = {}

-----------------------------------------------------------------------------
(* Properties of main: the records of a snapshot, the order of its calls   *)

HasAllFields(p) == \A f \in ParkingFields : p[f] # <<>>

\* C13: every record that enters a snapshot, loaded from the state file
\* into parking_previous or built from an element of the page and appended
\* to parking_all, has its six fields and none of them is empty.
C13_RecordsHaveAllFields ==
    /\ \A i \in DOMAIN parking_previous : HasAllFields(parking_previous[i])
    /\ \A i \in DOMAIN parking_all : HasAllFields(parking_all[i])

\* Where a call stands among the calls main made behind its loop, 0 when
\* main has not made it.
CallIndex(name) ==
    IF \E i \in DOMAIN calls : calls[i] = name
    THEN CHOOSE i \in DOMAIN calls : calls[i] = name
    ELSE 0

SaveIndex == CallIndex("parking_state_save")
NotifyIndex == CallIndex("construct_and_send_notification")

\* C14, as stated: the chunks are handed to the notifier before the state
\* file is overwritten; once main has called parking_state_save it has
\* called construct_and_send_notification before.
C14_NotifyBeforeSave ==
    SaveIndex # 0 => NotifyIndex # 0 /\ NotifyIndex < SaveIndex

\* C14, amended: the state file is overwritten before the message is
\* composed.  Once main has called construct_and_send_notification, on
\* the diff of its loop, it has called parking_state_save and
\* print_results before, in this order; and nothing is composed, split or
\* handed to the notifier until then.
C14_SaveBeforeNotify ==
    /\ NotifyIndex # 0 =>
          /\ calls = <<"parking_state_save", "print_results",
                       "construct_and_send_notification">>
          /\ parking_differences = parking_changes
    /\ mpc # "idle" /\ NotifyIndex = 0 =>
          /\ npc = "idle" /\ message = NoMessage
          /\ split_calls = <<>> /\ notified = <<>> /\ whatsapp = <<>>

\* A run that reached its end: it saved what it scraped, then handed a
\* chunk to the notifier.
C14_Witness ==
    /\ exit_status = "returned"
    /\ NotifyIndex # 0
    /\ parking_all # <<>>
    /\ state_file.exists
    /\ state_file.content = SaveContent(parking_changes.added)
    /\ notified # <<>>
    /\ whatsapp # <<>>

\* The run met an error: an exit with status 1, or the decoding error of
\* the load.
Failed == exit_status \in {"exit 1", "UnicodeDecodeError"}

\* A signal ended the run.
Interrupted == exit_status \in {"return 130", "KeyboardInterrupt"}

\* C15: a run whose load and scrape met no error, main standing behind
\* page_scrape, eventually leaves the scrape loop and calls
\* parking_state_save, unless an error or a signal ends it before.
C15_RunEventuallySaves ==
    (mpc = "compare") ~> (Failed \/ Interrupted \/ SaveIndex # 0)


\* The step ends main from inside its try statement: the return of the
\* handler of KeyboardInterrupt, or sys.exit(1) while a page is loaded or
\* scraped.
EndsInsideLoop ==
    mpc \in InTry /\ mpc' = "exited" /\ exit_status' \in {"return 130", "exit 1"}

\* C22: a run that ends by a KeyboardInterrupt raised inside the loop, or
\* by an error exit while a page is loaded or scraped, has called neither
\* parking_state_save nor the notifier; and from the end of the load on the
\* state file changes in no step but a call of parking_state_save, so that
\* such a run leaves in it what the load left.
C22_EarlyEndSavesNothing ==
    [][ /\ EndsInsideLoop =>
               /\ SaveIndex' = 0 /\ NotifyIndex' = 0
               /\ ~message'.composed /\ notified' = <<>> /\ whatsapp' = <<>>
        /\ (mpc # "load" /\ state_file' # state_file) =>
               /\ mpc = "save"
               /\ calls' = Append(calls, "parking_state_save") ]_vars

\* A run interrupted inside its loop after the comparison had found a new
\* record: main returned 130, nothing was saved and nothing sent.
C22_Witness ==
    /\ mpc = "exited" /\ exit_status = "return 130"
    /\ parking_changes.added # <<>>
    /\ calls = <<>>
    /\ ~message.composed
=============================================================================
